---- MODULE Spec2Model ----
(***************************************************************************)
(* The in-memory key-value store of src/linked_list.c (simple_db): a       *)
(* fixed table of HASH_TABLE_SIZE bucket heads, separate chaining through  *)
(* heap-allocated Entry nodes, and an entry counter.                       *)
(*                                                                         *)
(* A bucket's chain (the Entry nodes linked through `next`, from the head   *)
(* of the bucket to the node whose next is NULL) is written as the         *)
(* sequence of its entries, head first; an entry holds the strings its     *)
(* key and value pointers own.  malloc and strdup may fail, and malloc     *)
(* fails when MaxEntries nodes are live.                                   *)
(* A C string is written as its sequence of runs of equal bytes (the       *)
(* terminating NUL is implicit), so that strings of MAX_KEY_LENGTH and     *)
(* MAX_VALUE_LENGTH bytes stay small.                                      *)
(***************************************************************************)
EXTENDS Integers, Sequences, FiniteSets, TLC

\* ---------------------------------------------------------------- configuration

HASH_TABLE_SIZE == 1024

MAX_KEY_LENGTH == 256

MAX_VALUE_LENGTH == 4096

\* Number of live Entry nodes at which malloc is exhausted.
MaxEntries == 3

Buckets == 0..(HASH_TABLE_SIZE - 1)

\* ---------------------------------------------------------------- C strings

\* n consecutive bytes of value c.
Run(c, n) == [c |-> c, n |-> n]

RECURSIVE strlen(_)
\* strlen: the number of bytes before the terminating NUL.
strlen(s) == IF s = <<>> THEN 0 ELSE Head(s).n + strlen(Tail(s))

\* strcmp(a, b) == 0: the two strings hold the same bytes.  The strings of the
\* model are in normal form (adjacent runs differ in their byte, no empty run),
\* so equal byte sequences are equal run sequences.
StrEq(a, b) == a = b

\* ---------------------------------------------------------------- inputs

\* The keys and values the calls are made with.  "age" and "bef" hash to the
\* same bucket (306); so does K_255, a key of 255 bytes.  The empty key hashes
\* to bucket 261.  K_256 and K_257 are keys of 256 and 257 bytes, V_4095 and
\* V_4096 values of 4095 and 4096 bytes.
K_age == <<Run(97, 1), Run(103, 1), Run(101, 1)>>

K_bef == <<Run(98, 1), Run(101, 1), Run(102, 1)>>

K_255 == <<Run(97, 254), Run(111, 1)>>

K_empty == <<>>

K_256 == <<Run(107, 256)>>

K_257 == <<Run(107, 257)>>

Keys == {K_age, K_bef, K_255, K_empty, K_256, K_257}

V_empty == <<>>

V_4095 == <<Run(118, 4095)>>

V_4096 == <<Run(118, 4096)>>

Values == {V_empty, V_4095, V_4096}

\* The allocations of one db_set call that fail although memory is left:
\* the Entry node, the copy of the key, the copy of the value.
OomChoices == {{}, {"entry"}, {"key"}, {"value"}, {"key", "value"}}

\* ---------------------------------------------------------------- hash function

\* A uint32_t is kept as its two 16-bit halves <<high, low>>.
U32(n) == <<(n \div 65536) % 65536, n % 65536>>

Mod32(a, m) == (((a[1] % m) * (65536 % m)) + (a[2] % m)) % m

\* int c = *str++: the byte b of the string read through a char, which is
\* signed or unsigned as the build has it; a signed char holds the bytes from
\* 128 on as b - 256.
CharToInt(b, charSigned) == IF charSigned /\ b >= 128 THEN b - 256 ELSE b

\* hash = ((hash << 5) + hash) + c, in 32 bits: the shift by 5 is a
\* multiplication by 32, done on each half, the carry of the low half going
\* into the high half and the carry of the high half being dropped.  The int
\* c is converted to uint32_t for the addition (c modulo 2^32, of which the
\* halves are taken).
HashStep(hash, c) ==
    LET lo == ((hash[2] * 32) + hash[2]) + (c % 65536)
    IN  <<((((hash[1] * 32) + hash[1]) + ((c \div 65536) % 65536)) + (lo \div 65536)) % 65536,
          lo % 65536>>

\* Four, and sixteen, iterations of the loop body over the same byte.
HashStep4(hash, c) == HashStep(HashStep(HashStep(HashStep(hash, c), c), c), c)

HashStep16(hash, c) == HashStep4(HashStep4(HashStep4(HashStep4(hash, c), c), c), c)

\* The accumulator is a uint32_t.
IsU32(a) == a[1] \in 0..65535 /\ a[2] \in 0..65535

RECURSIVE HashRun(_, _, _)
\* The loop body run over n equal bytes (sixteen at a time while n allows).
HashRun(hash, c, n) ==
    IF n = 0 \/ ~IsU32(hash) THEN hash
    ELSE IF n >= 16 THEN HashRun(HashStep16(hash, c), c, n - 16)
    ELSE HashRun(HashStep(hash, c), c, n - 1)

RECURSIVE HashLoop(_, _, _)
\* while ((c = *str++)) over the bytes of str.
HashLoop(hash, str, charSigned) ==
    IF str = <<>> THEN hash
    ELSE HashLoop(HashRun(hash, CharToInt(Head(str).c, charSigned), Head(str).n),
                  Tail(str), charSigned)

\* The function's result for str on a build with the given signedness of
\* char: the accumulator after the loop, reduced to a bucket index.
Djb2(str, charSigned) == Mod32(HashLoop(U32(5381), str, charSigned), HASH_TABLE_SIZE)

\* The function is pure: its values on the keys of the store calls are
\* computed once.  These keys hold bytes below 128 only, which a signed and an
\* unsigned char read alike.
HashOfKey == [k \in Keys |-> Djb2(k, FALSE)]

hash_function(str) == HashOfKey[str]

\* ---------------------------------------------------------------- state

VARIABLES
    table,    \* db->table, kept as the buckets whose head is not NULL -> their chain
    count,    \* db->count
    lastOp,   \* the call that ran last, with its arguments and its result
    ref,      \* a reference associative map driven by the same calls
    hashCall, \* hash_function on its own: the build, the string, the results
    held,     \* the pointers into the store a caller keeps after db_get and db_keys
    thr,      \* the calls in progress in the threads of a multi-threaded caller
    heap      \* the nodes a caller that follows the pointers sees, and their frees

vars == <<table, count, lastOp, ref, hashCall, held, thr, heap>>

\* What the calls of a single-threaded caller that keeps no pointer leave alone.
aux == <<hashCall, held, thr, heap>>

\* ---------------------------------------------------------------- bucket table

\* Entry *table[HASH_TABLE_SIZE]: only the buckets with a non-NULL head are
\* written down; every other bucket of 0..HASH_TABLE_SIZE-1 holds NULL (the
\* empty chain), as after calloc.

\* struct Entry: the key and the value it owns (next is its successor in the
\* chain).
Entry(key, value) == [key |-> key, value |-> value]

\* db->table[i] with the nodes reachable from it.
TableGet(t, i) == IF i \in DOMAIN t THEN t[i] ELSE <<>>

\* db->table[i] = the head of `chain`.
TableSet(t, i, chain) ==
    IF chain = <<>> THEN [j \in DOMAIN t \ {i} |-> t[j]]
    ELSE [j \in DOMAIN t \cup {i} |-> IF j = i THEN chain ELSE t[j]]

\* The table of db_create: every head NULL.
EmptyTable == [j \in {} |-> <<>>]

RECURSIVE LiveEntries(_)
\* The Entry nodes that are allocated and not freed: those of the chains.
LiveEntries(t) ==
    IF DOMAIN t = {} THEN 0
    ELSE LET i == CHOOSE j \in DOMAIN t : TRUE
         IN  Len(t[i]) + LiveEntries([j \in DOMAIN t \ {i} |-> t[j]])

\* ---------------------------------------------------------------- allocation

\* malloc(sizeof(Entry)) returns NULL: the allocation fails, or the heap is
\* exhausted.
MallocFails(t, fail) == fail \/ LiveEntries(t) >= MaxEntries

\* strdup: a copy of s, or the null pointer.
strdup(s, fail) == IF fail THEN [null |-> TRUE, chars |-> <<>>] ELSE [null |-> FALSE, chars |-> s]

\* create_entry: the node, then both copies; NULL (nothing left allocated)
\* when the node or one of the copies cannot be had.
create_entry(t, key, value, oom) ==
    LET k == strdup(key, "key" \in oom)
        v == strdup(value, "value" \in oom)
    IN  IF MallocFails(t, "entry" \in oom) THEN [null |-> TRUE, entry |-> Entry(<<>>, <<>>)]
        ELSE IF k.null \/ v.null THEN [null |-> TRUE, entry |-> Entry(<<>>, <<>>)]
        ELSE [null |-> FALSE, entry |-> Entry(k.chars, v.chars)]

\* ---------------------------------------------------------------- chains

\* FindEntry as a lookup that compares the first node only and never follows
\* next.
FindEntryFirstOnly(chain, i, key) ==
    IF i > Len(chain) THEN 0
    ELSE IF StrEq(chain[i].key, key) THEN i
    ELSE 0

RECURSIVE FindEntryStopsAtLast(_, _, _)
\* FindEntry as a loop that tests entry->next instead of entry: it stops on
\* the last node of the chain whatever its key.
FindEntryStopsAtLast(chain, i, key) ==
    IF i > Len(chain) THEN 0
    ELSE IF StrEq(chain[i].key, key) \/ i = Len(chain) THEN i
    ELSE FindEntryStopsAtLast(chain, i + 1, key)

RECURSIVE FindEntry(_, _, _)
\* The loop of db_set, db_get and db_delete from the i-th node of the chain
\* on: the position of the first entry whose key equals `key`, 0 for NULL.
FindEntry(chain, i, key) ==
    IF i > Len(chain) THEN 0
    ELSE IF StrEq(chain[i].key, key) THEN i
    ELSE FindEntry(chain, i + 1, key)

\* UnlinkAfterPrev as prev->next = NULL: the nodes behind the entry are lost
\* with it.
UnlinkAfterPrevDropsRest(chain, i) == SubSeq(chain, 1, i - 1)

\* prev->next = entry->next: the chain without its node at position i > 1.
UnlinkAfterPrev(chain, i) == SubSeq(chain, 1, i - 1) \o SubSeq(chain, i + 1, Len(chain))

\* db->table[index] = entry->next: the chain without its head.
UnlinkHead(chain) == Tail(chain)

\* ---------------------------------------------------------------- operations

\* The state of the store after a call, with the call's result.
Outcome(t, c, ret, oom) == [table |-> t, count |-> c, ret |-> ret, oom |-> oom]

\* The length check of db_set.
LengthsOk(key, value) == ~(strlen(key) >= MAX_KEY_LENGTH \/ strlen(value) >= MAX_VALUE_LENGTH)

\* SetUpdate as an update that also moves the entry to the head of its chain.
SetUpdateMoveToFront(t, c, index, i, value, oom) ==
    LET new_value == strdup(value, "value" \in oom)
        chain     == t[index]
    IN  IF new_value.null THEN Outcome(t, c, FALSE, TRUE)
        ELSE Outcome([t EXCEPT ![index] = <<Entry(chain[i].key, new_value.chars)>>
                                          \o SubSeq(chain, 1, i - 1)
                                          \o SubSeq(chain, i + 1, Len(chain))],
                     c, TRUE, FALSE)

\* db_set, update path: the entry at position i of its chain exists; the old
\* value is freed only once the copy of the new one is there.
SetUpdate(t, c, index, i, value, oom) ==
    LET new_value == strdup(value, "value" \in oom)
    IN  IF new_value.null THEN Outcome(t, c, FALSE, TRUE)
        ELSE Outcome([t EXCEPT ![index][i].value = new_value.chars], c, TRUE, FALSE)

\* SetInsert without db->count++.
SetInsertNoCount(t, c, index, key, value, oom) ==
    LET new_entry == create_entry(t, key, value, oom)
    IN  IF new_entry.null THEN Outcome(t, c, FALSE, TRUE)
        ELSE Outcome(TableSet(t, index, <<new_entry.entry>> \o TableGet(t, index)),
                     c, TRUE, FALSE)

\* SetInsert with db->count++ ahead of the check of create_entry's result.
SetInsertCountsFirst(t, c, index, key, value, oom) ==
    LET new_entry == create_entry(t, key, value, oom)
    IN  IF new_entry.null THEN Outcome(t, c + 1, FALSE, TRUE)
        ELSE Outcome(TableSet(t, index, <<new_entry.entry>> \o TableGet(t, index)),
                     c + 1, TRUE, FALSE)

\* SetInsert that links the new entry into the bucket after its own.
SetInsertWrongBucket(t, c, index, key, value, oom) ==
    LET new_entry == create_entry(t, key, value, oom)
        other     == (index + 1) % HASH_TABLE_SIZE
    IN  IF new_entry.null THEN Outcome(t, c, FALSE, TRUE)
        ELSE Outcome(TableSet(t, other, <<new_entry.entry>> \o TableGet(t, other)),
                     c + 1, TRUE, FALSE)

\* SetInsert that appends the new entry to the end of its chain.
SetInsertAtTail(t, c, index, key, value, oom) ==
    LET new_entry == create_entry(t, key, value, oom)
    IN  IF new_entry.null THEN Outcome(t, c, FALSE, TRUE)
        ELSE Outcome(TableSet(t, index, TableGet(t, index) \o <<new_entry.entry>>),
                     c + 1, TRUE, FALSE)

\* db_set, insert path: the new entry becomes the head of its chain.
SetInsert(t, c, index, key, value, oom) ==
    LET new_entry == create_entry(t, key, value, oom)
    IN  IF new_entry.null THEN Outcome(t, c, FALSE, TRUE)
        ELSE Outcome(TableSet(t, index, <<new_entry.entry>> \o TableGet(t, index)),
                     c + 1, TRUE, FALSE)

\* SetOutcome without the lookup of an existing entry: every call inserts.
SetOutcomeAlwaysInserts(t, c, key, value, oom) ==
    IF ~LengthsOk(key, value) THEN Outcome(t, c, FALSE, FALSE)
    ELSE SetInsert(t, c, hash_function(key), key, value, oom)

\* db_set: the length check, the lookup, then the update or the insert.
SetOutcome(t, c, key, value, oom) ==
    IF ~LengthsOk(key, value) THEN Outcome(t, c, FALSE, FALSE)
    ELSE LET index == hash_function(key)
             i     == FindEntry(TableGet(t, index), 1, key)
         IN  IF i # 0 THEN SetUpdate(t, c, index, i, value, oom)
             ELSE SetInsert(t, c, index, key, value, oom)

\* db_get: a pointer to the stored value, or NULL.
GetOutcome(t, key) ==
    LET chain == TableGet(t, hash_function(key))
        i     == FindEntry(chain, 1, key)
    IN  IF i = 0 THEN [null |-> TRUE, chars |-> <<>>]
        ELSE [null |-> FALSE, chars |-> chain[i].value]

\* db_delete: unlink and free the entry when the key is found.
DeleteOutcome(t, c, key) ==
    LET index == hash_function(key)
        chain == TableGet(t, index)
        i     == FindEntry(chain, 1, key)
    IN  IF i = 0 THEN Outcome(t, c, FALSE, FALSE)
        ELSE IF i > 1 THEN Outcome(TableSet(t, index, UnlinkAfterPrev(chain, i)), c - 1, TRUE, FALSE)
        ELSE Outcome(TableSet(t, index, UnlinkHead(chain)), c - 1, TRUE, FALSE)

\* ClearLoop as a loop that frees the head of every bucket and leaves the
\* head's successor in the table.
ClearLoopHeadsOnly(t, i) ==
    [j \in {b \in DOMAIN t : b >= i /\ Len(t[b]) > 1} |-> Tail(t[j])]

RECURSIVE ClearLoop(_, _)
\* The loops of db_clear over the buckets i..HASH_TABLE_SIZE-1: every entry
\* of the bucket is freed and its head set to NULL.  The iterations over
\* buckets that are empty already change nothing and are taken in one step.
ClearLoop(t, i) ==
    LET used == {j \in DOMAIN t : j >= i /\ j < HASH_TABLE_SIZE}
    IN  IF used = {} THEN t
        ELSE LET j == CHOOSE x \in used : \A y \in used : x <= y
             IN  ClearLoop(TableSet(t, j, <<>>), j + 1)

\* ChainKeys as a walk that tests entry->next instead of entry: the last node
\* of the chain is not visited.
ChainKeysSkipsLast(chain) == [j \in 1..(Len(chain) - 1) |-> chain[j].key]

\* The inner loop of db_keys over one chain: keys[idx++] = entry->key, from
\* the head to the node whose next is NULL.
ChainKeys(chain) == [j \in 1..Len(chain) |-> chain[j].key]

RECURSIVE KeysLoop(_, _)
\* The outer loop of db_keys over the buckets i..HASH_TABLE_SIZE-1, in
\* ascending order (the empty buckets add nothing).
KeysLoop(t, i) ==
    LET used == {j \in DOMAIN t : j >= i /\ j < HASH_TABLE_SIZE}
    IN  IF used = {} THEN <<>>
        ELSE LET j == CHOOSE x \in used : \A y \in used : x <= y
             IN  ChainKeys(t[j]) \o KeysLoop(t, j + 1)

\* KeysOutcome with *count = 0 when the array cannot be allocated.
KeysOutcomeZeroCountOnFailure(t, c, fail) ==
    IF c = 0 THEN [null |-> TRUE, keys |-> <<>>, count |-> c]
    ELSE IF fail THEN [null |-> TRUE, keys |-> <<>>, count |-> 0]
    ELSE [null |-> FALSE, keys |-> KeysLoop(t, 0), count |-> c]

\* db_keys: *count is set first; NULL for an empty store and when the array
\* cannot be allocated, else the array of the entries' key pointers.
KeysOutcome(t, c, fail) ==
    IF c = 0 THEN [null |-> TRUE, keys |-> <<>>, count |-> c]
    ELSE IF fail THEN [null |-> TRUE, keys |-> <<>>, count |-> c]
    ELSE [null |-> FALSE, keys |-> KeysLoop(t, 0), count |-> c]

\* DBStats.
Stats(total_entries, total_collisions, max_chain_length, used_buckets) ==
    [total_entries |-> total_entries, total_collisions |-> total_collisions,
     max_chain_length |-> max_chain_length, used_buckets |-> used_buckets]

RECURSIVE StatsChainCountsEveryEntry(_, _, _)
\* StatsChain with total_collisions++ for every node, the first included.
StatsChainCountsEveryEntry(chain, j, acc) ==
    IF j > Len(chain) THEN acc
    ELSE StatsChainCountsEveryEntry(chain, j + 1,
             [length |-> acc.length + 1, collisions |-> acc.collisions + 1])

RECURSIVE StatsChain(_, _, _)
\* The inner loop of db_stats from the j-th node of a chain on: chain_length++
\* for every node, total_collisions++ for every node that has a successor.
StatsChain(chain, j, acc) ==
    IF j > Len(chain) THEN acc
    ELSE StatsChain(chain, j + 1,
             [length |-> acc.length + 1,
              collisions |-> IF j < Len(chain) THEN acc.collisions + 1 ELSE acc.collisions])

RECURSIVE StatsLoop(_, _, _)
\* The outer loop of db_stats over the buckets i..HASH_TABLE_SIZE-1 (the
\* empty buckets leave stats as it is).
StatsLoop(t, i, stats) ==
    LET used == {j \in DOMAIN t : j >= i /\ j < HASH_TABLE_SIZE}
    IN  IF used = {} THEN stats
        ELSE LET j == CHOOSE x \in used : \A y \in used : x <= y
                 w == StatsChain(t[j], 1, [length |-> 0, collisions |-> stats.total_collisions])
             IN  StatsLoop(t, j + 1,
                     Stats(stats.total_entries, w.collisions,
                           IF w.length > stats.max_chain_length THEN w.length
                           ELSE stats.max_chain_length,
                           stats.used_buckets + 1))

\* StatsOutcome without stats.total_entries = db->count.
StatsOutcomeNoTotal(t, c) == StatsLoop(t, 0, Stats(0, 0, 0, 0))

\* db_stats: total_entries from db->count, the rest from a scan of the table.
StatsOutcome(t, c) == StatsLoop(t, 0, Stats(c, 0, 0, 0))

\* The call record kept in lastOp.
Call(op, key, value, ret, oom) == [op |-> op, key |-> key, value |-> value, ret |-> ret, oom |-> oom]

\* No pointer result, or the null pointer.
NoValue == [null |-> TRUE, chars |-> <<>>]

\* The reference map after set(key, value).
RefSet(m, key, value) == [k \in DOMAIN m \cup {key} |-> IF k = key THEN value ELSE m[k]]

\* The reference map after delete(key).
RefDelete(m, key) == [k \in DOMAIN m \ {key} |-> m[k]]

EmptyMap == [k \in {} |-> <<>>]

db_set(key, value, oom) ==
    LET r == SetOutcome(table, count, key, value, oom)
    IN  /\ table' = r.table
        /\ count' = r.count
        /\ lastOp' = Call("db_set", key, value, r.ret, r.oom)
        /\ ref' = IF LengthsOk(key, value) /\ ~r.oom THEN RefSet(ref, key, value) ELSE ref

\* db_get as a lookup that moves the entry it finds to the head of its chain.
db_getMovesToFront(key) ==
    LET index == hash_function(key)
        chain == TableGet(table, index)
        i     == FindEntry(chain, 1, key)
    IN  /\ lastOp' = Call("db_get", key, <<>>, GetOutcome(table, key), FALSE)
        /\ table' = IF i = 0 THEN table
                    ELSE [table EXCEPT ![index] = <<chain[i]>> \o UnlinkAfterPrev(chain, i)]
        /\ UNCHANGED <<count, ref>>

db_get(key) ==
    /\ lastOp' = Call("db_get", key, <<>>, GetOutcome(table, key), FALSE)
    /\ UNCHANGED <<table, count, ref>>

db_delete(key) ==
    LET r == DeleteOutcome(table, count, key)
    IN  /\ table' = r.table
        /\ count' = r.count
        /\ lastOp' = Call("db_delete", key, <<>>, r.ret, FALSE)
        /\ ref' = RefDelete(ref, key)

\* db_exists as a test of the first byte of the value instead of the pointer.
db_existsIfValueNotEmpty(key) ==
    /\ lastOp' = Call("db_exists", key, <<>>,
                      ~GetOutcome(table, key).null /\ GetOutcome(table, key).chars # <<>>, FALSE)
    /\ UNCHANGED <<table, count, ref>>

db_exists(key) ==
    /\ lastOp' = Call("db_exists", key, <<>>, ~GetOutcome(table, key).null, FALSE)
    /\ UNCHANGED <<table, count, ref>>

db_count ==
    /\ lastOp' = Call("db_count", <<>>, <<>>, count, FALSE)
    /\ UNCHANGED <<table, count, ref>>

db_clear ==
    /\ table' = ClearLoop(table, 0)
    /\ count' = 0
    /\ lastOp' = Call("db_clear", <<>>, <<>>, NoValue, FALSE)
    /\ ref' = EmptyMap

db_keys(fail) ==
    LET r == KeysOutcome(table, count, fail)
    IN  /\ lastOp' = Call("db_keys", <<>>, <<>>, r, count # 0 /\ fail)
        /\ UNCHANGED <<table, count, ref>>

db_stats ==
    /\ lastOp' = Call("db_stats", <<>>, <<>>, StatsOutcome(table, count), FALSE)
    /\ UNCHANGED <<table, count, ref>>

\* hash_function not called.
NoHashCall == [str |-> <<>>, charSigned |-> FALSE, results |-> <<>>]

\* No pointer kept.
NoHeld == [value |-> <<>>, keys |-> <<>>]

\* No thread: `t` holds the call in progress in each thread, `base` the store
\* as it was when the threads were started.
NoThreads == [base |-> [table |-> EmptyTable, count |-> 0], t |-> <<>>]

\* No node followed.
NoHeap == [node |-> <<>>]

\* db_create: calloc'ed table, count 0.
InitStore ==
    /\ table = EmptyTable
    /\ count = 0
    /\ lastOp = Call("db_create", <<>>, <<>>, NoValue, FALSE)
    /\ ref = EmptyMap

Init ==
    /\ InitStore
    /\ hashCall = NoHashCall
    /\ held = NoHeld
    /\ thr = NoThreads
    /\ heap = NoHeap

Next ==
    \/ \E key \in Keys, value \in Values, oom \in OomChoices :
          db_set(key, value, oom) /\ UNCHANGED aux
    \/ \E key \in Keys : db_get(key) /\ UNCHANGED aux
    \/ \E key \in Keys : db_delete(key) /\ UNCHANGED aux
    \/ \E key \in Keys : db_exists(key) /\ UNCHANGED aux
    \/ db_count /\ UNCHANGED aux
    \/ db_clear /\ UNCHANGED aux
    \/ \E fail \in BOOLEAN : db_keys(fail) /\ UNCHANGED aux
    \/ db_stats /\ UNCHANGED aux

Spec == Init /\ [][Next]_vars

\* ---------------------------------------------------------------- pointers kept by the caller

\* db_get returns entry->value and db_keys fills its array with entry->key:
\* pointers to strings the store owns.  A string of the store is named by the
\* field and the key of the entry that owns it; a pointer is the string it was
\* taken to, the bytes it held then, and whether free has been called on it
\* since.
Unit(field, key) == [field |-> field, key |-> key]

Ptr(unit, chars) == [unit |-> unit, chars |-> chars, freed |-> FALSE]

\* free_entry: free(entry->key), free(entry->value), free(entry).
free_entry(entry) == {Unit("key", entry.key), Unit("value", entry.key)}

\* SetFrees as an update that replaces the entry: free_entry on the old one.
SetFreesWholeEntry(t, key, value, oom) ==
    LET chain == TableGet(t, hash_function(key))
        i     == FindEntry(chain, 1, key)
    IN  IF LengthsOk(key, value) /\ i # 0 /\ ~strdup(value, "value" \in oom).null
        THEN free_entry(chain[i])
        ELSE {}

\* The strings db_set frees: on the update path, once the copy of the new
\* value is there, free(entry->value) of the entry found.
SetFrees(t, key, value, oom) ==
    LET chain == TableGet(t, hash_function(key))
        i     == FindEntry(chain, 1, key)
    IN  IF LengthsOk(key, value) /\ i # 0 /\ ~strdup(value, "value" \in oom).null
        THEN {Unit("value", chain[i].key)}
        ELSE {}

\* DeleteFrees as free_entry on the head of the bucket instead of the entry
\* found.
DeleteFreesHead(t, key) ==
    LET chain == TableGet(t, hash_function(key))
        i     == FindEntry(chain, 1, key)
    IN  IF i # 0 THEN free_entry(chain[1]) ELSE {}

\* The strings db_delete frees: free_entry of the entry found.
DeleteFrees(t, key) ==
    LET chain == TableGet(t, hash_function(key))
        i     == FindEntry(chain, 1, key)
    IN  IF i # 0 THEN free_entry(chain[i]) ELSE {}

\* The strings db_clear and db_destroy free: free_entry of every entry of
\* every bucket.
ClearFrees(t) == UNION {UNION {free_entry(t[i][j]) : j \in 1..Len(t[i])} : i \in DOMAIN t}

\* The caller's pointers after free has been called on the strings `units`.
Invalidate(h, units) ==
    LET after(ps) == [i \in DOMAIN ps |->
                        IF ps[i].unit \in units THEN [ps[i] EXCEPT !.freed = TRUE] ELSE ps[i]]
    IN  [value |-> after(h.value), keys |-> after(h.keys)]

\* The keys and values of the calls of a caller that keeps pointers.
RefKeys == {K_age, K_bef, K_empty}

RefValues == {V_empty, V_4095}

RefOoms == {{}, {"value"}}

\* db_destroy: every entry freed, then the Database itself; no call may
\* follow.  Of the freed store nothing is left to read.
db_destroy ==
    /\ table' = EmptyTable
    /\ count' = 0
    /\ lastOp' = Call("db_destroy", <<>>, <<>>, NoValue, FALSE)
    /\ ref' = EmptyMap

\* The store has not been destroyed.
Alive == lastOp.op # "db_destroy"

\* value = db_get(db, key), the caller keeping the pointer.
keep_get(key) ==
    /\ Alive
    /\ held = NoHeld
    /\ db_get(key)
    /\ held' = [held EXCEPT !.value =
                   IF GetOutcome(table, key).null THEN <<>>
                   ELSE <<Ptr(Unit("value", key), GetOutcome(table, key).chars)>>]
    /\ UNCHANGED <<hashCall, thr, heap>>

\* keys = db_keys(db, &key_count), the caller keeping the array.
keep_keys ==
    /\ Alive
    /\ held = NoHeld
    /\ db_keys(FALSE)
    /\ held' = [held EXCEPT !.keys =
                   LET ks == KeysOutcome(table, count, FALSE).keys
                   IN  [i \in 1..Len(ks) |-> Ptr(Unit("key", ks[i]), ks[i])]]
    /\ UNCHANGED <<hashCall, thr, heap>>

\* free(keys), or the value pointer goes out of use.
release ==
    /\ Alive
    /\ held # NoHeld
    /\ held' = NoHeld
    /\ UNCHANGED <<table, count, lastOp, ref, hashCall, thr, heap>>

\* The calls made while pointers are kept.
ref_set(key, value, oom) ==
    /\ Alive
    /\ db_set(key, value, oom)
    /\ held' = Invalidate(held, SetFrees(table, key, value, oom))
    /\ UNCHANGED <<hashCall, thr, heap>>

ref_delete(key) ==
    /\ Alive
    /\ db_delete(key)
    /\ held' = Invalidate(held, DeleteFrees(table, key))
    /\ UNCHANGED <<hashCall, thr, heap>>

ref_clear ==
    /\ Alive
    /\ db_clear
    /\ held' = Invalidate(held, ClearFrees(table))
    /\ UNCHANGED <<hashCall, thr, heap>>

ref_destroy ==
    /\ Alive
    /\ db_destroy
    /\ held' = Invalidate(held, ClearFrees(table))
    /\ UNCHANGED <<hashCall, thr, heap>>

ref_read ==
    /\ Alive
    /\ \/ \E key \in RefKeys : db_get(key)
       \/ \E key \in RefKeys : db_exists(key)
       \/ db_count
       \/ db_keys(FALSE)
       \/ db_stats
    /\ UNCHANGED aux

NextRefs ==
    \/ \E key \in RefKeys : keep_get(key)
    \/ keep_keys
    \/ release
    \/ \E key \in RefKeys, value \in RefValues, oom \in RefOoms : ref_set(key, value, oom)
    \/ \E key \in RefKeys : ref_delete(key)
    \/ ref_clear
    \/ ref_destroy
    \/ ref_read

SpecRefs == Init /\ [][NextRefs]_vars

\* ---------------------------------------------------------------- calls in threads

\* Two threads of one caller each make one call on the same store, without a
\* lock (the store has none).  A call is a sequence of steps, one for each
\* access to the memory the threads share (db->table, the chains, db->count);
\* what a call computes on its own memory goes with the access that follows.

ThrKeys == {K_age, K_bef}

ThrValues == {V_empty, V_4095}

\* A call in a thread: where it is (pc), its arguments, its local variables
\* (the bucket, the position in the chain, acc for the others) and, once it
\* is "done", its result.
Thread(op, key, value) ==
    [op |-> op, pc |-> "start", key |-> key, value |-> value,
     index |-> 0, pos |-> 0, acc |-> <<>>, ret |-> <<>>]

Done(th, ret) == [th EXCEPT !.pc = "done", !.ret = <<ret>>]

\* The first bucket after i whose head is not NULL, HASH_TABLE_SIZE when the
\* for loop over the buckets ends.
NextUsed(t, i) ==
    LET used == {j \in DOMAIN t : j > i /\ j < HASH_TABLE_SIZE}
    IN  IF used = {} THEN HASH_TABLE_SIZE ELSE CHOOSE x \in used : \A y \in used : x <= y

\* The last n nodes of a chain: what is reachable from the node that had
\* n - 1 nodes behind it (nodes are only added in front while db_set calls
\* run).
Suffix(chain, n) == SubSeq(chain, (Len(chain) - n) + 1, Len(chain))

\* The sequential calls made before the threads are started.
before_threads ==
    /\ thr = NoThreads
    /\ \/ \E key \in ThrKeys, value \in ThrValues : db_set(key, value, {})
       \/ \E key \in ThrKeys : db_delete(key)
    /\ UNCHANGED aux

\* db_set in a thread.
\*   start:       the length check, the hash, the walk of the chain
\*   update:      free(entry->value); entry->value = new_value
\*   link:        new_entry->next = db->table[index]
\*   publish:     db->table[index] = new_entry
\*   count_load,
\*   count_store: db->count++
set_step(self) ==
    LET th    == thr.t[self]
        chain == TableGet(table, th.index)
    IN  /\ th.op = "db_set"
        /\ th.pc # "done"
        /\ CASE th.pc = "start" ->
                 LET index == hash_function(th.key)
                     i     == FindEntry(TableGet(table, index), 1, th.key)
                     new   == create_entry(table, th.key, th.value, {})
                 IN  /\ thr' = [thr EXCEPT !.t[self] =
                           IF ~LengthsOk(th.key, th.value) THEN Done(th, FALSE)
                           ELSE IF i # 0
                                THEN [th EXCEPT !.pc = "update", !.index = index,
                                                !.pos = (Len(TableGet(table, index)) - i) + 1]
                           ELSE IF new.null THEN Done(th, FALSE)
                           ELSE [th EXCEPT !.pc = "link", !.index = index]]
                     /\ UNCHANGED <<table, count>>
             [] th.pc = "update" ->
                 /\ table' = [table EXCEPT ![th.index][(Len(chain) - th.pos) + 1].value = th.value]
                 /\ thr' = [thr EXCEPT !.t[self] = Done(th, TRUE)]
                 /\ UNCHANGED count
             [] th.pc = "link" ->
                 /\ thr' = [thr EXCEPT !.t[self] = [th EXCEPT !.pc = "publish", !.pos = Len(chain)]]
                 /\ UNCHANGED <<table, count>>
             [] th.pc = "publish" ->
                 /\ table' = TableSet(table, th.index,
                                      <<Entry(th.key, th.value)>> \o Suffix(chain, th.pos))
                 /\ thr' = [thr EXCEPT !.t[self] = [th EXCEPT !.pc = "count_load"]]
                 /\ UNCHANGED count
             [] th.pc = "count_load" ->
                 /\ thr' = [thr EXCEPT !.t[self] = [th EXCEPT !.pc = "count_store", !.acc = <<count>>]]
                 /\ UNCHANGED <<table, count>>
             [] th.pc = "count_store" ->
                 /\ count' = th.acc[1] + 1
                 /\ thr' = [thr EXCEPT !.t[self] = Done(th, TRUE)]
                 /\ UNCHANGED table
        /\ UNCHANGED <<lastOp, ref, hashCall, held, heap>>

\* The threads are started, each with a db_set call to make.
spawn_writers ==
    /\ thr = NoThreads
    /\ \E k1 \in ThrKeys, v1 \in ThrValues, k2 \in ThrKeys, v2 \in ThrValues :
          thr' = [base |-> [table |-> table, count |-> count],
                  t    |-> <<Thread("db_set", k1, v1), Thread("db_set", k2, v2)>>]
    /\ UNCHANGED <<table, count, lastOp, ref, hashCall, held, heap>>

NextWriters ==
    \/ before_threads
    \/ spawn_writers
    \/ \E self \in DOMAIN thr.t : set_step(self)

SpecWriters == Init /\ [][NextWriters]_vars

\* The result of db_get, or of db_exists, for the pointer db_get comes to.
GetResult(op, r) == IF op = "db_exists" THEN ~r.null ELSE r

\* get_step as a lookup that moves the entry it finds to the head of its
\* chain.
get_stepMovesToFront(self) ==
    LET th    == thr.t[self]
        chain == TableGet(table, th.index)
    IN  /\ th.op \in {"db_get", "db_exists"}
        /\ th.pc # "done"
        /\ CASE th.pc = "start" ->
                 /\ thr' = [thr EXCEPT !.t[self] =
                              [th EXCEPT !.pc = "walk", !.index = hash_function(th.key), !.pos = 1]]
                 /\ UNCHANGED table
             [] th.pc = "walk" ->
                 IF th.pos <= Len(chain) /\ StrEq(chain[th.pos].key, th.key)
                 THEN /\ table' = [table EXCEPT ![th.index] =
                                      <<chain[th.pos]>> \o SubSeq(chain, 1, th.pos - 1)
                                                       \o SubSeq(chain, th.pos + 1, Len(chain))]
                      /\ thr' = [thr EXCEPT !.t[self] =
                                   Done(th, GetResult(th.op, [null |-> FALSE,
                                                             chars |-> chain[th.pos].value]))]
                 ELSE /\ thr' = [thr EXCEPT !.t[self] =
                                   IF th.pos > Len(chain) THEN Done(th, GetResult(th.op, NoValue))
                                   ELSE [th EXCEPT !.pos = th.pos + 1]]
                      /\ UNCHANGED table
        /\ UNCHANGED <<count, lastOp, ref, hashCall, held, heap>>

\* db_get in a thread, and db_exists, which is db_get(db, key) != NULL.
\*   start: the hash, entry = db->table[index]
\*   walk:  strcmp(entry->key, key), then return entry->value or
\*          entry = entry->next
get_step(self) ==
    LET th    == thr.t[self]
        chain == TableGet(table, th.index)
    IN  /\ th.op \in {"db_get", "db_exists"}
        /\ th.pc # "done"
        /\ CASE th.pc = "start" ->
                 thr' = [thr EXCEPT !.t[self] =
                           [th EXCEPT !.pc = "walk", !.index = hash_function(th.key), !.pos = 1]]
             [] th.pc = "walk" ->
                 thr' = [thr EXCEPT !.t[self] =
                           IF th.pos > Len(chain) THEN Done(th, GetResult(th.op, NoValue))
                           ELSE IF StrEq(chain[th.pos].key, th.key)
                                THEN Done(th, GetResult(th.op, [null |-> FALSE,
                                                               chars |-> chain[th.pos].value]))
                           ELSE [th EXCEPT !.pos = th.pos + 1]]
        /\ UNCHANGED <<table, count, lastOp, ref, hashCall, held, heap>>

\* db_count in a thread: one read of db->count.
count_step(self) ==
    LET th == thr.t[self]
    IN  /\ th.op = "db_count"
        /\ th.pc # "done"
        /\ thr' = [thr EXCEPT !.t[self] = Done(th, count)]
        /\ UNCHANGED <<table, count, lastOp, ref, hashCall, held, heap>>

\* db_stats in a thread.
\*   start:  stats.total_entries = db->count
\*   bucket: the for loop up to the next bucket with entry = db->table[i] not
\*           NULL (stats.used_buckets++), or to its end
\*   entry:  chain_length++, the test of entry->next (total_collisions++),
\*           entry = entry->next; behind the last node, max_chain_length
stats_step(self) ==
    LET th    == thr.t[self]
        chain == TableGet(table, th.index)
        st    == th.acc.stats
        j     == NextUsed(table, th.index)
        len   == th.acc.chain_length + 1
    IN  /\ th.op = "db_stats"
        /\ th.pc # "done"
        /\ thr' = [thr EXCEPT !.t[self] =
              CASE th.pc = "start" ->
                     [th EXCEPT !.pc = "bucket", !.index = -1,
                                !.acc = [stats |-> Stats(count, 0, 0, 0), chain_length |-> 0]]
                [] th.pc = "bucket" ->
                     IF j = HASH_TABLE_SIZE THEN Done(th, st)
                     ELSE [th EXCEPT !.pc = "entry", !.index = j, !.pos = 1,
                                     !.acc = [stats |-> [st EXCEPT !.used_buckets = @ + 1],
                                              chain_length |-> 0]]
                [] th.pc = "entry" ->
                     IF th.pos < Len(chain)
                     THEN [th EXCEPT !.pos = th.pos + 1,
                                     !.acc = [stats |-> [st EXCEPT !.total_collisions = @ + 1],
                                              chain_length |-> len]]
                     ELSE [th EXCEPT !.pc = "bucket",
                                     !.acc = [stats |-> [st EXCEPT !.max_chain_length =
                                                           IF len > @ THEN len ELSE @],
                                              chain_length |-> len]]]
        /\ UNCHANGED <<table, count, lastOp, ref, hashCall, held, heap>>

\* db_keys in a thread.
\*   start:  *count = db->count, the test for 0, malloc
\*   bucket: the for loop up to the next bucket whose head is not NULL, or to
\*           its end
\*   entry:  keys[idx++] = entry->key, entry = entry->next
keys_step(self) ==
    LET th    == thr.t[self]
        chain == TableGet(table, th.index)
        j     == NextUsed(table, th.index)
    IN  /\ th.op = "db_keys"
        /\ th.pc # "done"
        /\ thr' = [thr EXCEPT !.t[self] =
              CASE th.pc = "start" ->
                     IF count = 0 THEN Done(th, [null |-> TRUE, keys |-> <<>>, count |-> count])
                     ELSE [th EXCEPT !.pc = "bucket", !.index = -1,
                                     !.acc = [null |-> FALSE, keys |-> <<>>, count |-> count]]
                [] th.pc = "bucket" ->
                     IF j = HASH_TABLE_SIZE THEN Done(th, th.acc)
                     ELSE [th EXCEPT !.pc = "entry", !.index = j, !.pos = 1]
                [] th.pc = "entry" ->
                     [th EXCEPT !.pc = IF th.pos < Len(chain) THEN "entry" ELSE "bucket",
                                !.pos = th.pos + 1,
                                !.acc.keys = Append(@, chain[th.pos].key)]]
        /\ UNCHANGED <<table, count, lastOp, ref, hashCall, held, heap>>

\* The read-only calls a thread makes beside a db_stats.
ReaderCalls ==
    {Thread("db_stats", <<>>, <<>>), Thread("db_count", <<>>, <<>>), Thread("db_keys", <<>>, <<>>)}
    \cup {Thread(op, key, <<>>) : op \in {"db_get", "db_exists"}, key \in ThrKeys}

\* The threads are started: db_stats in the first, a read-only call in the
\* second, and no writer.
spawn_readers ==
    /\ thr = NoThreads
    /\ \E call \in ReaderCalls :
          thr' = [base |-> [table |-> table, count |-> count],
                  t    |-> <<Thread("db_stats", <<>>, <<>>), call>>]
    /\ UNCHANGED <<table, count, lastOp, ref, hashCall, held, heap>>

NextReaders ==
    \/ before_threads
    \/ spawn_readers
    \/ \E self \in DOMAIN thr.t : stats_step(self)
    \/ \E self \in DOMAIN thr.t : get_step(self)
    \/ \E self \in DOMAIN thr.t : count_step(self)
    \/ \E self \in DOMAIN thr.t : keys_step(self)

SpecReaders == Init /\ [][NextReaders]_vars

\* ---------------------------------------------------------------- NULL arguments

\* The functions of the public API as the caller sees them: each begins with
\* a test of its pointer arguments.  A pointer argument is NULL or points to
\* a string (as a result of db_get does); for the store handle and the
\* count pointer of db_keys only whether they are NULL matters.
ApiOps ==
    {"db_set", "db_get", "db_delete", "db_exists", "db_count", "db_clear", "db_keys",
     "db_stats", "db_destroy"}

StrPtr(chars) == [null |-> FALSE, chars |-> chars]

ApiKeys == {NoValue} \cup {StrPtr(k) : k \in ThrKeys}

ApiValues == {NoValue} \cup {StrPtr(v) : v \in ThrValues}

\* The test at the head of each function: the call returns at once.
ApiRejects(op, db, key, value, countp) ==
    CASE op = "db_set" -> ~db \/ key.null \/ value.null
      [] op \in {"db_get", "db_delete", "db_exists"} -> ~db \/ key.null
      [] op = "db_keys" -> ~db \/ ~countp
      [] OTHER -> ~db

\* ApiRejected with db_count(NULL) as an error code.
ApiRejectedCountMinusOne(op) ==
    CASE op \in {"db_set", "db_delete", "db_exists"} -> FALSE
      [] op = "db_count" -> -1
      [] op = "db_stats" -> Stats(0, 0, 0, 0)
      [] OTHER -> NoValue

\* What the call returns then: false, NULL, 0, the zeroed DBStats, nothing.
ApiRejected(op) ==
    CASE op \in {"db_set", "db_delete", "db_exists"} -> FALSE
      [] op = "db_count" -> 0
      [] op = "db_stats" -> Stats(0, 0, 0, 0)
      [] OTHER -> NoValue

\* A call of the API with its arguments as given.
api_call(op, db, key, value, countp) ==
    IF ApiRejects(op, db, key, value, countp)
    THEN /\ lastOp' = [op |-> op, db |-> db, key |-> key, value |-> value, countp |-> countp,
                       ret |-> ApiRejected(op)]
         /\ UNCHANGED <<table, count, ref>>
    ELSE \/ op = "db_set" /\ db_set(key.chars, value.chars, {})
         \/ op = "db_get" /\ db_get(key.chars)
         \/ op = "db_delete" /\ db_delete(key.chars)
         \/ op = "db_exists" /\ db_exists(key.chars)
         \/ op = "db_count" /\ db_count
         \/ op = "db_clear" /\ db_clear
         \/ op = "db_keys" /\ db_keys(FALSE)
         \/ op = "db_stats" /\ db_stats

NextNull ==
    \E op \in ApiOps, db \in BOOLEAN, key \in ApiKeys, value \in ApiValues, countp \in BOOLEAN :
        api_call(op, db, key, value, countp) /\ UNCHANGED aux

SpecNull == Init /\ [][NextNull]_vars

\* ---------------------------------------------------------------- hash_function on its own

\* The greatest number of equal bytes in a row in the strings hashed.
MaxRunLen == 2

\* The number of calls made with one string.
MaxHashCalls == 2

\* The bytes of the strings hashed: below and from 128 on.
HashBytes == {97, 127, 128, 195, 255}

HashRuns == {Run(c, n) : c \in HashBytes, n \in 1..MaxRunLen}

\* The strings hashed: no byte, one run, two runs of different bytes.
HashInputs ==
    {<<>>} \cup {<<r>> : r \in HashRuns}
           \cup {<<p[1], p[2]>> : p \in {q \in HashRuns \X HashRuns : q[1].c # q[2].c}}

\* One build (char signed or unsigned) and one string.
InitHash ==
    /\ InitStore
    /\ hashCall \in {[str |-> str, charSigned |-> b, results |-> <<>>] :
                        str \in HashInputs, b \in BOOLEAN}
    /\ held = NoHeld
    /\ thr = NoThreads
    /\ heap = NoHeap

\* A call of hash_function with the string.
hash_call ==
    /\ Len(hashCall.results) < MaxHashCalls
    /\ hashCall' = [hashCall EXCEPT
                       !.results = Append(@, Djb2(hashCall.str, hashCall.charSigned))]
    /\ UNCHANGED <<table, count, lastOp, ref, held, thr, heap>>

NextHash == hash_call

SpecHash == InitHash /\ [][NextHash]_vars

\* ---------------------------------------------------------------- the store, pointer by pointer

\* The store as the code walks it: every Entry node has an address and a
\* `next` pointer, and every block of memory (the Database, a node, a key
\* string, a value string) counts the calls of free() on it.  An address is
\* never handed out twice, so a block is one allocation.
NULL == 0

\* The number of db_set calls that allocate over the lifetime of the store.
MaxAllocs == 3

HeapKeys == {K_age, K_bef, K_255, K_empty}

HeapValues == {V_empty, V_4095}

\* The block of node `addr` ("entry"), of its key string ("key"), or of the
\* value string it got at its gen-th update ("value").
Block(addr, field, gen) == <<addr, field, gen>>

\* The Database block.
DbBlock == Block(NULL, "db", 0)

\* An Entry: what key and value point at, the number of updates of the
\* value, and next.
HeapEntry(key, value, gen, next) == [key |-> key, value |-> value, gen |-> gen, next |-> next]

\* db->table[index].
HeapHead(h, index) == IF index \in DOMAIN h.table THEN h.table[index] ELSE NULL

\* db->table[index] = a.
HeapSetHead(t, index, a) ==
    IF a = NULL THEN [j \in DOMAIN t \ {index} |-> t[j]]
    ELSE [j \in DOMAIN t \cup {index} |-> IF j = index THEN a ELSE t[j]]

\* free(p) on each block of the sequence, in order; free(NULL) does nothing.
RECURSIVE HeapFree(_, _)
HeapFree(frees, blocks) ==
    IF blocks = <<>> THEN frees
    ELSE HeapFree([b \in DOMAIN frees |-> IF b = Head(blocks) THEN frees[b] + 1 ELSE frees[b]],
                  Tail(blocks))

\* The frees of free_entry(a): the key, the value, the node.
HeapFreeEntry(h, a) ==
    <<Block(a, "key", 0), Block(a, "value", h.node[a].gen), Block(a, "entry", 0)>>

\* free_entry(a): the three frees; what the freed node held is not read again
\* (its fields are written as empty).
HeapFreeNode(h, a) ==
    [h EXCEPT !.frees = HeapFree(@, HeapFreeEntry(h, a)),
              !.node[a] = HeapEntry(<<>>, <<>>, h.node[a].gen, NULL)]

\* malloc and strdup of blocks: allocated, not freed.
HeapAlloc(frees, blocks) == [b \in DOMAIN frees \cup blocks |-> IF b \in blocks THEN 0 ELSE frees[b]]

RECURSIVE HeapWalk(_, _, _, _, _)
\* while (entry) { if (strcmp(entry->key, key) == 0) ...; prev = entry;
\* entry = entry->next; }: where the loop stops, `ends` telling whether it
\* does within `fuel` iterations.
HeapWalk(h, key, entry, prev, fuel) ==
    IF entry = NULL THEN [entry |-> NULL, prev |-> prev, ends |-> TRUE]
    ELSE IF StrEq(h.node[entry].key, key) THEN [entry |-> entry, prev |-> prev, ends |-> TRUE]
    ELSE IF fuel = 0 THEN [entry |-> entry, prev |-> prev, ends |-> FALSE]
    ELSE HeapWalk(h, key, h.node[entry].next, entry, fuel - 1)

RECURSIVE HeapChain(_, _, _)
\* while (entry) { next = entry->next; ...; entry = next; }: the nodes the
\* loop visits in at most `fuel` iterations, then the node it is at (NULL when
\* it has ended).
HeapChain(h, entry, fuel) ==
    IF entry = NULL \/ fuel = 0 THEN <<entry>>
    ELSE <<entry>> \o HeapChain(h, h.node[entry].next, fuel - 1)

\* More iterations than there are nodes.
HeapFuel(h) == Len(h.node) + 1

\* The loop over the chain of a bucket ends.
HeapChainEnds(h, index) ==
    LET c == HeapChain(h, HeapHead(h, index), HeapFuel(h)) IN c[Len(c)] = NULL

RECURSIVE HeapFreeChain(_, _, _)
\* while (entry) { next = entry->next; free_entry(entry); entry = next; }
HeapFreeChain(h, entry, fuel) ==
    IF entry = NULL \/ fuel = 0 THEN h
    ELSE HeapFreeChain(HeapFreeNode(h, entry), h.node[entry].next, fuel - 1)

RECURSIVE HeapFreeTable(_, _)
\* for (i = 0; i < HASH_TABLE_SIZE; i++) over the buckets whose head is not NULL.
HeapFreeTable(h, buckets) ==
    IF buckets = {} THEN h
    ELSE LET i == CHOOSE b \in buckets : \A c \in buckets : b <= c
         IN  HeapFreeTable(HeapFreeChain(h, HeapHead(h, i), HeapFuel(h)), buckets \ {i})

\* HeapClearTable without db->table[i] = NULL.
HeapClearTableKeepsHeads(h) == h.table

\* db->table[i] = NULL for every bucket.
HeapClearTable(h) == [j \in {} |-> NULL]

\* HeapLink with the new node linked to itself.
HeapLinkToItself(h, index, a) == a

\* new_entry->next = db->table[index].
HeapLink(h, index, a) == HeapHead(h, index)

\* db_create.
InitHeap ==
    /\ InitStore
    /\ hashCall = NoHashCall
    /\ held = NoHeld
    /\ thr = NoThreads
    /\ heap = [db |-> TRUE, table |-> [j \in {} |-> NULL], count |-> 0, node |-> <<>>,
               frees |-> [b \in {DbBlock} |-> 0], allocs |-> 0,
               last |-> [op |-> "db_create", ret |-> TRUE]]

\* The call returns with ret.
HeapRet(h, op, ret) == [h EXCEPT !.last = [op |-> op, ret |-> ret]]

heap_set(key, value, oom) ==
    /\ heap.db
    /\ LET index == hash_function(key)
           w == HeapWalk(heap, key, HeapHead(heap, index), NULL, HeapFuel(heap))
           a == Len(heap.node) + 1
           full == heap.allocs >= MaxAllocs
           got == {Block(a, "entry", 0)}
                    \cup (IF "key" \in oom THEN {} ELSE {Block(a, "key", 0)})
                    \cup (IF "value" \in oom THEN {} ELSE {Block(a, "value", 0)})
       IN  IF ~LengthsOk(key, value) THEN heap' = HeapRet(heap, "db_set", FALSE)
           ELSE /\ w.ends
                /\ IF w.entry # NULL
                   THEN IF "value" \in oom \/ full THEN heap' = HeapRet(heap, "db_set", FALSE)
                        ELSE heap' = HeapRet(
                                 [heap EXCEPT
                                    !.frees = HeapAlloc(
                                        HeapFree(@, <<Block(w.entry, "value", heap.node[w.entry].gen)>>),
                                        {Block(w.entry, "value", heap.node[w.entry].gen + 1)}),
                                    !.node[w.entry].value = value,
                                    !.node[w.entry].gen = @ + 1,
                                    !.allocs = @ + 1], "db_set", TRUE)
                   ELSE IF "entry" \in oom \/ full THEN heap' = HeapRet(heap, "db_set", FALSE)
                   ELSE IF "key" \in oom \/ "value" \in oom
                   THEN heap' = HeapRet(
                            HeapFreeNode(
                                [heap EXCEPT
                                   !.node = Append(@, HeapEntry(key, value, 0, NULL)),
                                   !.frees = HeapAlloc(@, got),
                                   !.allocs = @ + 1], a), "db_set", FALSE)
                   ELSE heap' = HeapRet(
                            [heap EXCEPT
                               !.node = Append(@, HeapEntry(key, value, 0, HeapLink(heap, index, a))),
                               !.table = HeapSetHead(@, index, a),
                               !.count = @ + 1,
                               !.frees = HeapAlloc(@, got),
                               !.allocs = @ + 1], "db_set", TRUE)
    /\ UNCHANGED <<table, count, lastOp, ref, hashCall, held, thr>>

heap_get(key) ==
    /\ heap.db
    /\ LET w == HeapWalk(heap, key, HeapHead(heap, hash_function(key)), NULL, HeapFuel(heap))
       IN  /\ w.ends
           /\ heap' = HeapRet(heap, "db_get",
                              IF w.entry = NULL THEN NoValue ELSE StrPtr(heap.node[w.entry].value))
    /\ UNCHANGED <<table, count, lastOp, ref, hashCall, held, thr>>

heap_delete(key) ==
    /\ heap.db
    /\ LET index == hash_function(key)
           w == HeapWalk(heap, key, HeapHead(heap, index), NULL, HeapFuel(heap))
       IN  /\ w.ends
           /\ IF w.entry = NULL THEN heap' = HeapRet(heap, "db_delete", FALSE)
              ELSE LET unlinked ==
                           IF w.prev # NULL
                           THEN [heap EXCEPT !.node[w.prev].next = heap.node[w.entry].next]
                           ELSE [heap EXCEPT !.table = HeapSetHead(@, index, heap.node[w.entry].next)]
                   IN  heap' = HeapRet([HeapFreeNode(unlinked, w.entry) EXCEPT !.count = @ - 1],
                                       "db_delete", TRUE)
    /\ UNCHANGED <<table, count, lastOp, ref, hashCall, held, thr>>

heap_clear ==
    /\ heap.db
    /\ \A i \in DOMAIN heap.table : HeapChainEnds(heap, i)
    /\ heap' = HeapRet([HeapFreeTable(heap, DOMAIN heap.table) EXCEPT
                           !.table = HeapClearTable(heap), !.count = 0], "db_clear", TRUE)
    /\ UNCHANGED <<table, count, lastOp, ref, hashCall, held, thr>>

heap_destroy ==
    /\ heap.db
    /\ \A i \in DOMAIN heap.table : HeapChainEnds(heap, i)
    /\ heap' = HeapRet([HeapFreeTable(heap, DOMAIN heap.table) EXCEPT
                           !.frees = HeapFree(@, <<DbBlock>>), !.db = FALSE], "db_destroy", TRUE)
    /\ UNCHANGED <<table, count, lastOp, ref, hashCall, held, thr>>

NextHeap ==
    \/ \E key \in HeapKeys, value \in HeapValues, oom \in OomChoices : heap_set(key, value, oom)
    \/ \E key \in HeapKeys : heap_get(key)
    \/ \E key \in HeapKeys : heap_delete(key)
    \/ heap_clear
    \/ heap_destroy

SpecHeap == InitHeap /\ [][NextHeap]_vars

\* ---------------------------------------------------------------- the singly linked list

\* The list library at the head of src/linked_list.c.  A list (head, then
\* next until NULL) is written as the sequence of the data of its nodes.
\* No list grows beyond MaxNodes nodes.
MaxNodes == 4

Data == {1, 2, 3}

\* createNode: NULL when malloc fails.
createNode(data, fail) == IF fail THEN NoValue ELSE [null |-> FALSE, chars |-> <<data>>]

insertEnd(head, data, fail) ==
    LET newNode == createNode(data, fail)
    IN  IF newNode.null THEN head
        ELSE IF head = <<>> THEN newNode.chars
        ELSE head \o newNode.chars

insertBegin(head, data, fail) ==
    LET newNode == createNode(data, fail)
    IN  IF newNode.null THEN head ELSE newNode.chars \o head

\* getMidNode: slow and fast are positions in the list (Len + 1 is NULL);
\* the list is cut before slow when slow has moved.
getMidNode(head) ==
    LET n == Len(head)
        RECURSIVE Loop(_, _)
        Loop(slow, fast) ==
            IF fast <= n /\ fast + 1 <= n THEN Loop(slow + 1, fast + 2) ELSE slow
        slow == Loop(1, 1)
    IN  [head |-> SubSeq(head, 1, slow - 1), mid |-> SubSeq(head, slow, n)]

\* merge with current->next = l1 after the loop, whatever is left of l2.
mergeDropsRestOfSecond(l1, l2, allocs) ==
    LET RECURSIVE Loop(_, _)
        Loop(a, b) ==
            IF a # <<>> /\ b # <<>>
            THEN IF Head(a) <= Head(b) THEN <<Head(a)>> \o Loop(Tail(a), b)
                 ELSE <<Head(b)>> \o Loop(a, Tail(b))
            ELSE a
    IN  IF createNode(0, allocs = 0).null
        THEN [list |-> <<>>, allocs |-> 0, deref |-> TRUE]
        ELSE [list |-> Loop(l1, l2), allocs |-> allocs - 1, deref |-> FALSE]

\* merge: the dummy node is not tested; with dummy NULL, current->next
\* (line 161 or 170) is a store through the null pointer.  `allocs` is the
\* number of allocations that succeed before malloc returns NULL.
merge(l1, l2, allocs) ==
    LET RECURSIVE Loop(_, _)
        Loop(a, b) ==
            IF a # <<>> /\ b # <<>>
            THEN IF Head(a) <= Head(b) THEN <<Head(a)>> \o Loop(Tail(a), b)
                 ELSE <<Head(b)>> \o Loop(a, Tail(b))
            ELSE IF a # <<>> THEN a ELSE b
    IN  IF createNode(0, allocs = 0).null
        THEN [list |-> <<>>, allocs |-> 0, deref |-> TRUE]
        ELSE [list |-> Loop(l1, l2), allocs |-> allocs - 1, deref |-> FALSE]

RECURSIVE mergeSort(_, _)
mergeSort(head, allocs) ==
    IF head = <<>> \/ Tail(head) = <<>> THEN [list |-> head, allocs |-> allocs, deref |-> FALSE]
    ELSE LET cut == getMidNode(head)
             left == mergeSort(cut.head, allocs)
             right == mergeSort(cut.mid, left.allocs)
         IN  IF left.deref THEN left
             ELSE IF right.deref THEN right
             ELSE merge(left.list, right.list, right.allocs)

RECURSIVE bubbleSort(_)
\* Pass is one run of the inner loop from position i (current), with swapped;
\* the do-while repeats it while a pass has swapped.
bubbleSort(head) ==
    LET RECURSIVE Pass(_, _, _)
        Pass(list, i, swapped) ==
            IF i + 1 > Len(list) THEN [list |-> list, swapped |-> swapped]
            ELSE IF list[i] > list[i + 1]
            THEN Pass([list EXCEPT ![i] = list[i + 1], ![i + 1] = list[i]], i + 1, TRUE)
            ELSE Pass(list, i + 1, swapped)
    IN  IF head = <<>> \/ Tail(head) = <<>> THEN head
        ELSE LET pass == Pass(head, 1, FALSE)
             IN  IF pass.swapped THEN bubbleSort(pass.list) ELSE pass.list

\* head = NULL.
InitList ==
    /\ InitStore
    /\ hashCall = NoHashCall
    /\ held = NoHeld
    /\ thr = NoThreads
    /\ heap = [list |-> <<>>, op |-> "none", before |-> <<>>, fail |-> FALSE, deref |-> FALSE]

\* head = op(head, ...), the process ending at a store through NULL.
ListCall(op, list, fail, deref) ==
    /\ ~heap.deref
    /\ heap' = [list |-> list, op |-> op, before |-> heap.list, fail |-> fail, deref |-> deref]
    /\ UNCHANGED <<table, count, lastOp, ref, hashCall, held, thr>>

NextList ==
    \/ \E data \in Data, fail \in BOOLEAN :
          /\ Len(heap.list) < MaxNodes
          /\ ListCall("insertEnd", insertEnd(heap.list, data, fail), fail, FALSE)
    \/ \E data \in Data, fail \in BOOLEAN :
          /\ Len(heap.list) < MaxNodes
          /\ ListCall("insertBegin", insertBegin(heap.list, data, fail), fail, FALSE)
    \/ \E allocs \in 0..MaxNodes :
          LET r == mergeSort(heap.list, allocs)
          IN  ListCall("mergeSort", r.list, r.deref, r.deref)
    \/ ListCall("bubbleSort", bubbleSort(heap.list), FALSE, FALSE)

SpecList == InitList /\ [][NextList]_vars

\* ---------------------------------------------------------------- the doubly linked list

\* src/doubly_linked_list.c, pointer by pointer: `node` maps the address of
\* every allocated DNode to its fields, a list is [node, head].  malloc hands
\* out the lowest free address of 1..MaxNodes; createDNode exits the process
\* when malloc fails, so a call that allocates is taken only while an address
\* is free.
createDNode(node, data) ==
    LET free == (1..MaxNodes) \ DOMAIN node
        p == CHOOSE a \in free : \A b \in free : a <= b
    IN  [node |-> [a \in DOMAIN node \cup {p} |->
                      IF a = p THEN [data |-> data, next |-> NULL, prev |-> NULL] ELSE node[a]],
         p |-> p]

RECURSIVE getTail(_, _)
\* while (temp->next != NULL) temp = temp->next, from temp # NULL.
getTail(node, temp) == IF node[temp].next = NULL THEN temp ELSE getTail(node, node[temp].next)

RECURSIVE FindD(_, _, _)
\* while (temp != NULL && temp->data != value) temp = temp->next.
FindD(node, temp, value) ==
    IF temp # NULL /\ node[temp].data # value THEN FindD(node, node[temp].next, value) ELSE temp

insertDEnd(l, data) ==
    LET c == createDNode(l.node, data)
        temp == getTail(l.node, l.head)
    IN  IF l.head = NULL THEN [node |-> c.node, head |-> c.p]
        ELSE [node |-> [c.node EXCEPT ![temp].next = c.p, ![c.p].prev = temp], head |-> l.head]

\* insertDBegin without head->prev = newNode.
insertDBeginKeepsPrev(l, data) ==
    LET c == createDNode(l.node, data)
    IN  [node |-> [c.node EXCEPT ![c.p].next = l.head], head |-> c.p]

insertDBegin(l, data) ==
    LET c == createDNode(l.node, data)
        n1 == IF l.head # NULL THEN [c.node EXCEPT ![l.head].prev = c.p] ELSE c.node
    IN  [node |-> [n1 EXCEPT ![c.p].next = l.head], head |-> c.p]

insertDAfter(l, afterValue, data) ==
    LET temp == FindD(l.node, l.head, afterValue)
        c == createDNode(l.node, data)
        n1 == [c.node EXCEPT ![c.p].next = l.node[temp].next, ![c.p].prev = temp]
        n2 == IF l.node[temp].next # NULL THEN [n1 EXCEPT ![l.node[temp].next].prev = c.p] ELSE n1
    IN  IF l.head = NULL \/ temp = NULL THEN l
        ELSE [node |-> [n2 EXCEPT ![temp].next = c.p], head |-> l.head]

insertDBefore(l, beforeValue, data) ==
    LET temp == FindD(l.node, l.head, beforeValue)
        c == createDNode(l.node, data)
        n1 == [c.node EXCEPT ![c.p].next = temp, ![c.p].prev = l.node[temp].prev]
    IN  IF l.head = NULL THEN l
        ELSE IF l.node[l.head].data = beforeValue THEN insertDBegin(l, data)
        ELSE IF temp = NULL THEN l
        ELSE [node |-> [n1 EXCEPT ![l.node[temp].prev].next = c.p, ![temp].prev = c.p],
              head |-> l.head]

deleteDNode(l, data) ==
    LET node == l.node
        next == node[l.head].next
        temp == FindD(node, l.head, data)
        n1 == IF node[temp].next # NULL
              THEN [node EXCEPT ![node[temp].next].prev = node[temp].prev] ELSE node
        n2 == IF n1[temp].prev # NULL
              THEN [n1 EXCEPT ![n1[temp].prev].next = n1[temp].next] ELSE n1
    IN  IF l.head = NULL THEN l
        ELSE IF node[l.head].data = data
        THEN [node |-> [a \in DOMAIN node \ {l.head} |->
                           IF a = next THEN [node[a] EXCEPT !.prev = NULL] ELSE node[a]],
              head |-> next]
        ELSE IF temp = NULL THEN l
        ELSE [node |-> [a \in DOMAIN node \ {temp} |-> n2[a]], head |-> l.head]

\* Pass is the inner while loop (the nodes, ptr1 and swapped when it ends),
\* Sort the do-while around it.
bubbleSortD(l) ==
    LET RECURSIVE Pass(_, _, _, _)
        Pass(node, ptr1, lptr, swapped) ==
            LET next == node[ptr1].next
            IN  IF next = lptr THEN [node |-> node, ptr1 |-> ptr1, swapped |-> swapped]
                ELSE IF node[ptr1].data > node[next].data
                THEN Pass([node EXCEPT ![ptr1].data = node[next].data,
                                       ![next].data = node[ptr1].data], next, lptr, TRUE)
                ELSE Pass(node, next, lptr, swapped)
        RECURSIVE Sort(_, _)
        Sort(node, lptr) ==
            LET pass == Pass(node, l.head, lptr, FALSE)
            IN  IF pass.swapped THEN Sort(pass.node, pass.ptr1) ELSE pass.node
    IN  IF l.head = NULL \/ l.node[l.head].next = NULL THEN l
        ELSE [node |-> Sort(l.node, NULL), head |-> l.head]

RECURSIVE mergeSortD(_)
\* mergeSortD with its helpers: splitD (slow is where the list is cut) and
\* mergeD.
mergeSortD(l) ==
    LET RECURSIVE splitD(_, _, _)
        splitD(node, fast, slow) ==
            IF node[fast].next # NULL /\ node[node[fast].next].next # NULL
            THEN splitD(node, node[node[fast].next].next, node[slow].next)
            ELSE slow
        RECURSIVE mergeD(_, _, _)
        mergeD(node, first, second) ==
            IF first = NULL THEN [node |-> node, head |-> second]
            ELSE IF second = NULL THEN [node |-> node, head |-> first]
            ELSE IF node[first].data < node[second].data
            THEN LET r == mergeD(node, node[first].next, second)
                     n1 == [r.node EXCEPT ![first].next = r.head]
                     n2 == IF r.head # NULL THEN [n1 EXCEPT ![r.head].prev = first] ELSE n1
                 IN  [node |-> [n2 EXCEPT ![first].prev = NULL], head |-> first]
            ELSE LET r == mergeD(node, first, node[second].next)
                     n1 == [r.node EXCEPT ![second].next = r.head]
                     n2 == IF r.head # NULL THEN [n1 EXCEPT ![r.head].prev = second] ELSE n1
                 IN  [node |-> [n2 EXCEPT ![second].prev = NULL], head |-> second]
    IN  IF l.head = NULL \/ l.node[l.head].next = NULL THEN l
        ELSE LET slow == splitD(l.node, l.head, l.head)
                 temp == l.node[slow].next
                 n1 == [l.node EXCEPT ![slow].next = NULL]
                 n2 == IF temp # NULL THEN [n1 EXCEPT ![temp].prev = NULL] ELSE n1
                 head == mergeSortD([node |-> n2, head |-> l.head])
                 second == mergeSortD([node |-> head.node, head |-> temp])
             IN  mergeD(second.node, head.head, second.head)

reverseDList(l) ==
    LET RECURSIVE Loop(_, _, _)
        Loop(node, current, temp) ==
            IF current = NULL THEN [node |-> node, temp |-> temp]
            ELSE Loop([node EXCEPT ![current].prev = node[current].next,
                                   ![current].next = node[current].prev],
                      node[current].next, node[current].prev)
        r == Loop(l.node, l.head, NULL)
    IN  [node |-> r.node, head |-> IF r.temp # NULL THEN r.node[r.temp].prev ELSE l.head]

\* head = NULL, no node allocated.
InitNodes ==
    /\ InitStore
    /\ hashCall = NoHashCall
    /\ held = NoHeld
    /\ thr = NoThreads
    /\ heap = [node |-> <<>>, head |-> NULL, op |-> "none"]

\* head = op(head, ...).
NodesCall(op, l) ==
    /\ heap' = [node |-> l.node, head |-> l.head, op |-> op]
    /\ UNCHANGED <<table, count, lastOp, ref, hashCall, held, thr>>

NextDList ==
    \/ \E data \in Data :
          /\ DOMAIN heap.node # 1..MaxNodes
          /\ NodesCall("insertDEnd", insertDEnd(heap, data))
    \/ \E data \in Data :
          /\ DOMAIN heap.node # 1..MaxNodes
          /\ NodesCall("insertDBegin", insertDBegin(heap, data))
    \/ \E afterValue \in Data, data \in Data :
          /\ DOMAIN heap.node # 1..MaxNodes
          /\ NodesCall("insertDAfter", insertDAfter(heap, afterValue, data))
    \/ \E beforeValue \in Data, data \in Data :
          /\ DOMAIN heap.node # 1..MaxNodes
          /\ NodesCall("insertDBefore", insertDBefore(heap, beforeValue, data))
    \/ \E data \in Data : NodesCall("deleteDNode", deleteDNode(heap, data))
    \/ NodesCall("bubbleSortD", bubbleSortD(heap))
    \/ NodesCall("mergeSortD", mergeSortD(heap))
    \/ NodesCall("reverseDList", reverseDList(heap))

SpecDList == InitNodes /\ [][NextDList]_vars

\* ---------------------------------------------------------------- the circular linked list

\* src/circular_linked_list.c, with the addresses of the doubly linked list:
\* a CNode has data and next, and a new node points to itself.
createCNode(node, data) ==
    LET free == (1..MaxNodes) \ DOMAIN node
        p == CHOOSE a \in free : \A b \in free : a <= b
    IN  [node |-> [a \in DOMAIN node \cup {p} |->
                      IF a = p THEN [data |-> data, next |-> p] ELSE node[a]],
         p |-> p]

RECURSIVE getTailC(_, _, _)
\* while (temp->next != head) temp = temp->next.
getTailC(node, head, temp) ==
    IF node[temp].next = head THEN temp ELSE getTailC(node, head, node[temp].next)

insertCEnd(l, data) ==
    LET c == createCNode(l.node, data)
        temp == getTailC(l.node, l.head, l.head)
    IN  IF l.head = NULL THEN [node |-> c.node, head |-> c.p]
        ELSE [node |-> [c.node EXCEPT ![temp].next = c.p, ![c.p].next = l.head], head |-> l.head]

insertCBegin(l, data) ==
    LET c == createCNode(l.node, data)
        temp == getTailC(l.node, l.head, l.head)
    IN  IF l.head = NULL THEN [node |-> c.node, head |-> c.p]
        ELSE [node |-> [c.node EXCEPT ![c.p].next = l.head, ![temp].next = c.p], head |-> c.p]

insertCAfter(l, afterValue, data) ==
    LET RECURSIVE Find(_)
        Find(temp) ==
            IF l.node[temp].data = afterValue THEN temp
            ELSE IF l.node[temp].next = l.head THEN NULL
            ELSE Find(l.node[temp].next)
        temp == Find(l.head)
        c == createCNode(l.node, data)
    IN  IF l.head = NULL \/ temp = NULL THEN l
        ELSE [node |-> [c.node EXCEPT ![c.p].next = l.node[temp].next, ![temp].next = c.p],
              head |-> l.head]

deleteCNode(l, data) ==
    LET node == l.node
        head == l.head
        tail == getTailC(node, head, head)
        RECURSIVE Search(_, _)
        Search(prev, temp) ==
            IF node[temp].data = data THEN [prev |-> prev, temp |-> temp]
            ELSE IF node[temp].next = head THEN [prev |-> temp, temp |-> NULL]
            ELSE Search(temp, node[temp].next)
        found == Search(head, node[head].next)
    IN  IF head = NULL THEN l
        ELSE IF node[head].data = data
        THEN IF node[head].next = head THEN [node |-> <<>>, head |-> NULL]
             ELSE [node |-> [a \in DOMAIN node \ {head} |->
                                IF a = tail THEN [node[a] EXCEPT !.next = node[head].next]
                                ELSE node[a]],
                   head |-> node[head].next]
        ELSE IF found.temp = NULL THEN l
        ELSE [node |-> [a \in DOMAIN node \ {found.temp} |->
                           IF a = found.prev THEN [node[a] EXCEPT !.next = node[found.temp].next]
                           ELSE node[a]],
              head |-> head]

\* Pass is the inner do-while (the nodes, ptr1 and swapped when it ends),
\* Sort the do-while around it.
bubbleSortC(l) ==
    LET head == l.head
        RECURSIVE Pass(_, _, _, _)
        Pass(node, ptr1, lptr, swapped) ==
            LET next == node[ptr1].next
                swap == next # head /\ next # lptr /\ node[ptr1].data > node[next].data
                n1 == IF swap THEN [node EXCEPT ![ptr1].data = node[next].data,
                                                ![next].data = node[ptr1].data]
                      ELSE node
            IN  IF n1[next].next # head /\ n1[next].next # lptr
                THEN Pass(n1, next, lptr, swapped \/ swap)
                ELSE [node |-> n1, ptr1 |-> next, swapped |-> swapped \/ swap]
        RECURSIVE Sort(_, _)
        Sort(node, lptr) ==
            LET pass == Pass(node, head, lptr, FALSE)
            IN  IF pass.swapped THEN Sort(pass.node, pass.ptr1) ELSE pass.node
    IN  IF head = NULL \/ l.node[head].next = head THEN l
        ELSE [node |-> Sort(l.node, NULL), head |-> head]

\* mergeSortC with its helpers: breakCircular, mergeSortLinear (splitC,
\* mergeC) on the list ended by NULL, makeCircular.
mergeSortC(l) ==
    LET RECURSIVE splitC(_, _, _)
        splitC(node, fast, slow) ==
            IF node[fast].next # NULL /\ node[node[fast].next].next # NULL
            THEN splitC(node, node[node[fast].next].next, node[slow].next)
            ELSE slow
        RECURSIVE mergeC(_, _, _)
        mergeC(node, first, second) ==
            IF first = NULL THEN [node |-> node, head |-> second]
            ELSE IF second = NULL THEN [node |-> node, head |-> first]
            ELSE IF node[first].data < node[second].data
            THEN LET r == mergeC(node, node[first].next, second)
                 IN  [node |-> [r.node EXCEPT ![first].next = r.head], head |-> first]
            ELSE LET r == mergeC(node, first, node[second].next)
                 IN  [node |-> [r.node EXCEPT ![second].next = r.head], head |-> second]
        RECURSIVE mergeSortLinear(_)
        mergeSortLinear(m) ==
            IF m.head = NULL \/ m.node[m.head].next = NULL THEN m
            ELSE LET slow == splitC(m.node, m.head, m.head)
                     head == mergeSortLinear([node |-> [m.node EXCEPT ![slow].next = NULL],
                                              head |-> m.head])
                     second == mergeSortLinear([node |-> head.node, head |-> m.node[slow].next])
                 IN  mergeC(second.node, head.head, second.head)
        broken == [node |-> [l.node EXCEPT ![getTailC(l.node, l.head, l.head)].next = NULL],
                   head |-> l.head]
        sorted == mergeSortLinear(broken)
    IN  IF l.head = NULL \/ l.node[l.head].next = l.head THEN l
        ELSE [node |-> [sorted.node EXCEPT ![getTail(sorted.node, sorted.head)].next = sorted.head],
              head |-> sorted.head]

\* reverseCList without head->next = prev.
reverseCListLeavesHeadNext(l) ==
    LET RECURSIVE Loop(_, _, _)
        Loop(node, prev, current) ==
            LET next == node[current].next
                n1 == [node EXCEPT ![current].next = prev]
            IN  IF next # l.head THEN Loop(n1, current, next) ELSE [node |-> n1, prev |-> current]
        r == Loop(l.node, NULL, l.head)
    IN  IF l.head = NULL \/ l.node[l.head].next = l.head THEN l
        ELSE [node |-> r.node, head |-> r.prev]

\* Loop is the do-while: next = current->next; current->next = prev;
\* prev = current; current = next, while current != head.
reverseCList(l) ==
    LET RECURSIVE Loop(_, _, _)
        Loop(node, prev, current) ==
            LET next == node[current].next
                n1 == [node EXCEPT ![current].next = prev]
            IN  IF next # l.head THEN Loop(n1, current, next) ELSE [node |-> n1, prev |-> current]
        r == Loop(l.node, NULL, l.head)
    IN  IF l.head = NULL \/ l.node[l.head].next = l.head THEN l
        ELSE [node |-> [r.node EXCEPT ![l.head].next = r.prev], head |-> r.prev]

\* getCListLength: the do-while counts until temp is head again; -1 when it
\* has not come back within `steps` iterations (the call does not return).
getCListLength(l, steps) ==
    LET RECURSIVE Loop(_, _)
        Loop(n, temp) ==
            IF temp \notin DOMAIN l.node \/ n >= steps THEN -1
            ELSE IF l.node[temp].next = l.head THEN n + 1
            ELSE Loop(n + 1, l.node[temp].next)
    IN  IF l.head = NULL THEN 0 ELSE Loop(0, l.head)

\* isCircular: 1 when the walk from head->next is back at head, 0 when it
\* met NULL; -1 when it has done neither within `steps` iterations.
isCircular(l, steps) ==
    LET RECURSIVE Loop(_, _)
        Loop(temp, left) ==
            IF temp = NULL THEN 0
            ELSE IF temp = l.head THEN 1
            ELSE IF left = 0 \/ temp \notin DOMAIN l.node THEN -1
            ELSE Loop(l.node[temp].next, left - 1)
    IN  IF l.head = NULL THEN 0 ELSE Loop(l.node[l.head].next, steps)

NextCList ==
    \/ \E data \in Data :
          /\ DOMAIN heap.node # 1..MaxNodes
          /\ NodesCall("insertCEnd", insertCEnd(heap, data))
    \/ \E data \in Data :
          /\ DOMAIN heap.node # 1..MaxNodes
          /\ NodesCall("insertCBegin", insertCBegin(heap, data))
    \/ \E afterValue \in Data, data \in Data :
          /\ DOMAIN heap.node # 1..MaxNodes
          /\ NodesCall("insertCAfter", insertCAfter(heap, afterValue, data))
    \/ \E data \in Data : NodesCall("deleteCNode", deleteCNode(heap, data))
    \/ NodesCall("bubbleSortC", bubbleSortC(heap))
    \/ NodesCall("mergeSortC", mergeSortC(heap))
    \/ NodesCall("reverseCList", reverseCList(heap))

SpecCList == InitNodes /\ [][NextCList]_vars

\* ---------------------------------------------------------------- properties

\* The places of the table: <<bucket, position in the chain>>.
Slots(t) == UNION {{<<i, j>> : j \in 1..Len(t[i])} : i \in DOMAIN t}

EntryAt(t, s) == t[s[1]][s[2]]

\* The key has an entry somewhere in the table.
Present(t, key) == \E s \in Slots(t) : EntryAt(t, s).key = key

\* What the reference map holds for the key, as a db_get result.
RefGet(m, key) ==
    IF key \in DOMAIN m THEN [null |-> FALSE, chars |-> m[key]] ELSE [null |-> TRUE, chars |-> <<>>]

\* C1: with valid arguments (those that pass db_set's length check) and no
\* allocation failure, every result of db_get, db_exists, db_delete and
\* db_count is the one the reference map gives for the same calls: the
\* mapped value or absent, membership, whether the key was present, the size.
C1_MatchesReferenceMap ==
    [][/\ lastOp'.op = "db_get" => lastOp'.ret = RefGet(ref, lastOp'.key)
       /\ lastOp'.op = "db_exists" => lastOp'.ret = (lastOp'.key \in DOMAIN ref)
       /\ lastOp'.op = "db_delete" => lastOp'.ret = (lastOp'.key \in DOMAIN ref)
       /\ lastOp'.op = "db_count" => lastOp'.ret = Cardinality(DOMAIN ref)]_vars

\* A db_get that finds a value behind the head of a chain.
C1_Witness ==
    /\ lastOp.op = "db_get"
    /\ ~lastOp.ret.null
    /\ \E s \in Slots(table) : s[2] > 1 /\ EntryAt(table, s).key = lastOp.key

\* C2: count equals the number of Entry nodes reachable by walking every
\* bucket's chain, in every state reachable by db_set, db_delete and db_clear
\* calls, successful or failed.
C2_CountIsEntries == count = Cardinality(Slots(table))

\* A failed db_set on a store of three entries.
C2_Witness ==
    /\ lastOp.op = "db_set"
    /\ lastOp.ret = FALSE
    /\ count = 3

\* C3: no two entries of the table, in the same chain or in different
\* chains, have equal keys.
C3_KeysUnique ==
    \A s1, s2 \in Slots(table) : EntryAt(table, s1).key = EntryAt(table, s2).key => s1 = s2

\* A successful db_set of a key that is present, in a chain of three.
C3_Witness ==
    /\ lastOp.op = "db_set"
    /\ lastOp.ret = TRUE
    /\ \E s \in Slots(table) : s[2] = 3 /\ EntryAt(table, s).key = lastOp.key

\* C4: every entry sits in the bucket whose index is hash_function of its
\* key, and that index is a bucket of the table.
C4_EntryInItsBucket ==
    \A s \in Slots(table) : s[1] \in Buckets /\ hash_function(EntryAt(table, s).key) = s[1]

\* Two buckets in use after a db_delete.
C4_Witness ==
    /\ lastOp.op = "db_delete"
    /\ lastOp.ret = TRUE
    /\ Cardinality(DOMAIN table) = 2

\* C5: db_set(k, v2) on a present key k (arguments passing the length check,
\* the copy of the value allocated) returns true, makes db_get(k) return v2,
\* and changes nothing else: the same count, every chain with the same keys
\* in the same order, every other entry with its value.
C5_UpdateInPlace ==
    [][(/\ lastOp'.op = "db_set"
        /\ LengthsOk(lastOp'.key, lastOp'.value)
        /\ Present(table, lastOp'.key)
        /\ ~lastOp'.oom)
       => /\ lastOp'.ret = TRUE
          /\ GetOutcome(table', lastOp'.key) = [null |-> FALSE, chars |-> lastOp'.value]
          /\ count' = count
          /\ Slots(table') = Slots(table)
          /\ \A s \in Slots(table) :
                /\ EntryAt(table', s).key = EntryAt(table, s).key
                /\ EntryAt(table, s).key # lastOp'.key
                     => EntryAt(table', s).value = EntryAt(table, s).value]_vars

\* A db_set that changed the value of the last entry of a chain of three.
C5_Witness ==
    /\ lastOp.op = "db_set"
    /\ lastOp.ret = TRUE
    /\ \E s \in Slots(table) :
          /\ s[2] = 3
          /\ EntryAt(table, s) = Entry(lastOp.key, lastOp.value)
          /\ EntryAt(table, <<s[1], 1>>).value # lastOp.value

\* C6: db_set(k, v) on an absent key k (arguments passing the length check,
\* every allocation succeeding) returns true and makes one new entry (k, v)
\* the head of bucket hash_function(k), the previous chain following it in
\* its order; count grows by one and every other bucket is unchanged.
C6_InsertAtHead ==
    [][(/\ lastOp'.op = "db_set"
        /\ LengthsOk(lastOp'.key, lastOp'.value)
        /\ ~Present(table, lastOp'.key)
        /\ ~lastOp'.oom)
       => /\ lastOp'.ret = TRUE
          /\ TableGet(table', hash_function(lastOp'.key))
               = <<Entry(lastOp'.key, lastOp'.value)>> \o TableGet(table, hash_function(lastOp'.key))
          /\ count' = count + 1
          /\ \A i \in Buckets \ {hash_function(lastOp'.key)} :
                TableGet(table', i) = TableGet(table, i)]_vars

\* A key inserted in front of two entries while another bucket is in use.
C6_Witness ==
    /\ lastOp.op = "db_set"
    /\ lastOp.ret = TRUE
    /\ Len(TableGet(table, hash_function(lastOp.key))) = 2
    /\ TableGet(table, hash_function(lastOp.key))[1] = Entry(lastOp.key, lastOp.value)
    /\ Cardinality(DOMAIN table) = 2

\* C7: a db_set that returns false, for a size limit or for a failed
\* allocation, on the insert path or on the update path, leaves the store as
\* it was: the same chains in the same order with the same keys and values,
\* the same count.
C7_FailedSetChangesNothing ==
    [][(lastOp'.op = "db_set" /\ lastOp'.ret = FALSE) => (table' = table /\ count' = count)]_vars

\* A db_set of a present key that failed for its allocation.
C7_Witness ==
    /\ lastOp.op = "db_set"
    /\ lastOp.ret = FALSE
    /\ lastOp.oom
    /\ Present(table, lastOp.key)
    /\ GetOutcome(table, lastOp.key).chars # lastOp.value

\* C8: db_set with an empty key returns false and leaves the store
\* unchanged, so that no entry of the store has the empty string as its key.
C8_EmptyKeyRejected ==
    /\ (lastOp.op = "db_set" /\ strlen(lastOp.key) = 0) => lastOp.ret = FALSE
    /\ \A s \in Slots(table) : strlen(EntryAt(table, s).key) > 0

\* C9: db_set accepts every key of up to MAX_KEY_LENGTH characters and every
\* value of up to MAX_VALUE_LENGTH characters: a call whose allocations
\* succeed returns false exactly when its key is longer than MAX_KEY_LENGTH
\* or its value longer than MAX_VALUE_LENGTH.
C9_RejectsOnlyBeyondMaxima ==
    (lastOp.op = "db_set" /\ ~lastOp.oom)
    => (lastOp.ret = FALSE
        <=> (strlen(lastOp.key) > MAX_KEY_LENGTH \/ strlen(lastOp.value) > MAX_VALUE_LENGTH))

\* C10: db_delete(k) on a present key returns true and removes exactly the
\* entry of k, at the head, inside or at the end of its chain: count falls
\* by one, the other entries of the chain keep their values and their
\* order, the other buckets are unchanged, and afterwards db_get(k) is
\* absent and db_exists(k) false.
C10_DeleteRemovesExactlyOne ==
    [][(lastOp'.op = "db_delete" /\ Present(table, lastOp'.key))
       => LET index == hash_function(lastOp'.key)
              old   == TableGet(table, index)
          IN  /\ lastOp'.ret = TRUE
              /\ count' = count - 1
              /\ \E i \in 1..Len(old) :
                    /\ old[i].key = lastOp'.key
                    /\ TableGet(table', index)
                         = [j \in 1..(Len(old) - 1) |-> IF j < i THEN old[j] ELSE old[j + 1]]
              /\ \A b \in Buckets \ {index} : TableGet(table', b) = TableGet(table, b)
              /\ GetOutcome(table', lastOp'.key).null
              /\ ~Present(table', lastOp'.key)]_vars

\* A db_delete that left two entries in the chain of its key.
C10_Witness ==
    /\ lastOp.op = "db_delete"
    /\ lastOp.ret = TRUE
    /\ Len(TableGet(table, hash_function(lastOp.key))) = 2
    /\ count = 2

\* C11: db_delete(k) on a key that has no entry returns false and leaves the
\* store as it was (count, every chain, every value), also when other keys
\* occupy the bucket k hashes to.
C11_DeleteAbsentChangesNothing ==
    [][(lastOp'.op = "db_delete" /\ ~Present(table, lastOp'.key))
       => (lastOp'.ret = FALSE /\ table' = table /\ count' = count)]_vars

\* A db_delete that returned false while two other keys sit in the bucket of
\* its key.
C11_Witness ==
    /\ lastOp.op = "db_delete"
    /\ lastOp.ret = FALSE
    /\ Len(TableGet(table, hash_function(lastOp.key))) = 2

\* C12: db_exists(k) is true exactly when db_get(k) returns a value, also
\* when the stored value is the empty string: a db_exists and a db_get of the
\* same key that follow each other agree.  db_exists changes neither the
\* table nor count.  (The subscript is vars with the name of the call
\* ahead of it: results of different calls are values of different kinds.)
C12_ExistsIffGet ==
    [][/\ lastOp'.op = "db_exists" => (table' = table /\ count' = count)
       /\ (lastOp.op = "db_exists" /\ lastOp'.op = "db_get" /\ lastOp'.key = lastOp.key)
            => lastOp.ret = ~lastOp'.ret.null
       /\ (lastOp.op = "db_get" /\ lastOp'.op = "db_exists" /\ lastOp'.key = lastOp.key)
            => lastOp'.ret = ~lastOp.ret.null]_<<lastOp.op, vars>>

\* db_exists answered true for a key whose stored value is the empty string.
C12_Witness ==
    /\ lastOp.op = "db_exists"
    /\ lastOp.ret = TRUE
    /\ GetOutcome(table, lastOp.key) = [null |-> FALSE, chars |-> <<>>]

\* C13: db_clear, from any reachable state, leaves every bucket head NULL and
\* count zero, so that db_keys yields no key and every db_get is absent; the
\* store stays usable: the db_set, db_get or db_delete that follows behaves
\* as on the store db_create returns.
C13_ClearEmptiesAndStaysUsable ==
    [][/\ lastOp'.op = "db_clear"
            => /\ \A i \in Buckets : TableGet(table', i) = <<>>
               /\ count' = 0
               /\ KeysOutcome(table', count', FALSE) = [null |-> TRUE, keys |-> <<>>, count |-> 0]
               /\ \A k \in Keys : GetOutcome(table', k).null
       /\ lastOp.op = "db_clear"
            => /\ (lastOp'.op = "db_set" /\ ~lastOp'.oom)
                    => LET fresh == SetOutcome(EmptyTable, 0, lastOp'.key, lastOp'.value, {})
                       IN  table' = fresh.table /\ count' = fresh.count /\ lastOp'.ret = fresh.ret
               /\ lastOp'.op = "db_get" => lastOp'.ret = GetOutcome(EmptyTable, lastOp'.key)
               /\ lastOp'.op = "db_delete"
                    => (lastOp'.ret = FALSE /\ table' = EmptyTable /\ count' = 0)]_<<lastOp.op, vars>>

\* db_clear has run and left the store empty.
C13_Witness ==
    /\ lastOp.op = "db_clear"
    /\ table = EmptyTable
    /\ count = 0

\* The place of the entry of a stored key.
SlotOf(t, key) == CHOOSE s \in Slots(t) : EntryAt(t, s).key = key

\* Bucket order, then chain order from the head.
SlotBefore(s1, s2) == s1[1] < s2[1] \/ (s1[1] = s2[1] /\ s1[2] < s2[2])

\* C15: on a store of n > 0 entries, the array allocated, db_keys sets *count
\* to n and returns n keys, every stored key once, in ascending order of
\* bucket index and, within a bucket, in chain order from head to tail.
C15_KeysInBucketThenChainOrder ==
    (lastOp.op = "db_keys" /\ Cardinality(Slots(table)) > 0 /\ ~lastOp.oom)
    => LET ks == lastOp.ret.keys
           n  == Cardinality(Slots(table))
       IN  /\ ~lastOp.ret.null
           /\ lastOp.ret.count = n
           /\ Len(ks) = n
           /\ \A s \in Slots(table) :
                 Cardinality({p \in 1..Len(ks) : ks[p] = EntryAt(table, s).key}) = 1
           /\ \A p, q \in 1..Len(ks) :
                 p < q => (/\ Present(table, ks[p])
                           /\ Present(table, ks[q])
                           /\ SlotBefore(SlotOf(table, ks[p]), SlotOf(table, ks[q])))

\* db_keys on a store of three keys, one of them in a bucket of its own.
C15_Witness ==
    /\ lastOp.op = "db_keys"
    /\ ~lastOp.ret.null
    /\ Len(lastOp.ret.keys) = 3
    /\ Cardinality(DOMAIN table) = 2

\* C16: db_stats returns total_entries equal to db_count, used_buckets the
\* number of buckets whose chain is not empty, total_collisions the sum over
\* the buckets of max(chain_length - 1, 0) and max_chain_length the length of
\* the longest chain, 0 for an empty table.
C16_StatsMatchTable ==
    lastOp.op = "db_stats"
    => /\ lastOp.ret.total_entries = count
       /\ lastOp.ret.used_buckets = Cardinality({i \in Buckets : TableGet(table, i) # <<>>})
       /\ lastOp.ret.total_collisions = Cardinality({s \in Slots(table) : s[2] > 1})
       /\ \A i \in Buckets : Len(TableGet(table, i)) <= lastOp.ret.max_chain_length
       /\ \/ \E i \in Buckets : Len(TableGet(table, i)) = lastOp.ret.max_chain_length
          \/ (lastOp.ret.max_chain_length = 0 /\ table = EmptyTable)

\* db_stats on a chain of two beside a chain of one.
C16_Witness ==
    /\ lastOp.op = "db_stats"
    /\ lastOp.ret = Stats(3, 1, 2, 2)

RECURSIVE Djb2ReferenceRun(_, _, _)
\* h := h * 33 + c over n bytes c, kept modulo HASH_TABLE_SIZE (which divides
\* 2^32, so that reducing early gives the same index).
Djb2ReferenceRun(h, c, n) ==
    IF n = 0 THEN h ELSE Djb2ReferenceRun(((h * 33) + c) % HASH_TABLE_SIZE, c, n - 1)

RECURSIVE Djb2ReferenceLoop(_, _)
Djb2ReferenceLoop(h, str) ==
    IF str = <<>> THEN h
    ELSE Djb2ReferenceLoop(Djb2ReferenceRun(h, Head(str).c, Head(str).n), Tail(str))

\* The DJB2 reference over the byte values 0..255 of str.
Djb2Reference(str) == Djb2ReferenceLoop(5381 % HASH_TABLE_SIZE, str)

\* C18: hash_function is the DJB2 reference over the key's bytes taken as
\* their values 0..255 (from 5381, h := (h * 33 + c) mod 2^32, the result
\* h mod HASH_TABLE_SIZE): every call with a string returns that index, the
\* same for every call, inside 0..HASH_TABLE_SIZE-1.
C18_HashIsDjb2OfByteValues ==
    \A i \in 1..Len(hashCall.results) :
        /\ hashCall.results[i] = Djb2Reference(hashCall.str)
        /\ hashCall.results[i] = hashCall.results[1]
        /\ hashCall.results[i] \in Buckets

C17_BorrowedValueStaysValid ==
    [][(held.value # <<>> /\ ~held.value[1].freed /\ held'.value # <<>>)
       => /\ held'.value[1].freed
               => \/ lastOp'.op \in {"db_clear", "db_destroy"}
                  \/ (lastOp'.op \in {"db_set", "db_delete"}
                      /\ lastOp'.key = held.value[1].unit.key)
          /\ ~held'.value[1].freed
               => /\ held'.value[1] = held.value[1]
                  /\ GetOutcome(table', held.value[1].unit.key)
                       = [null |-> FALSE, chars |-> held.value[1].chars]]_<<lastOp.op, vars>>

\* A pointer to the value of the last entry of a chain, still valid after
\* the db_delete of the entry in front of it.
C17_Witness ==
    /\ held.value # <<>>
    /\ ~held.value[1].freed
    /\ lastOp.op = "db_delete"
    /\ lastOp.ret = TRUE
    /\ hash_function(lastOp.key) = hash_function(held.value[1].unit.key)
    /\ lastOp.key # held.value[1].unit.key

\* Both threads have returned from their calls.
AllDone == thr.t # <<>> /\ \A i \in 1..Len(thr.t) : thr.t[i].pc = "done"

\* The store after the calls of threads i and then j run one after the other
\* on the store the threads were started on.
AfterInOrder(i, j) ==
    LET first  == SetOutcome(thr.base.table, thr.base.count, thr.t[i].key, thr.t[i].value, {})
        second == SetOutcome(first.table, first.count, thr.t[j].key, thr.t[j].value, {})
    IN  [table |-> second.table, count |-> second.count]

\* C19: the operations are thread-safe: when two threads run db_set calls on
\* the same store without a lock, then whatever the interleaving of their
\* steps, the table they leave is the one the two calls give in one of the
\* two sequential orders: no inserted entry is lost, no key is there twice,
\* count is the number of entries reachable from the buckets.
C19_ConcurrentSetsAreSerializable ==
    AllDone
    => /\ [table |-> table, count |-> count] \in {AfterInOrder(1, 2), AfterInOrder(2, 1)}
       /\ \A i \in 1..Len(thr.t) : thr.t[i].ret = <<TRUE>> => Present(table, thr.t[i].key)
       /\ C3_KeysUnique
       /\ C2_CountIsEntries

\* What the call of a thread returns when it runs alone on the store the
\* threads were started on.
AloneResult(th) ==
    CASE th.op = "db_stats" -> StatsOutcome(thr.base.table, thr.base.count)
      [] th.op = "db_keys" -> KeysOutcome(thr.base.table, thr.base.count, FALSE)
      [] th.op = "db_count" -> thr.base.count
      [] th.op = "db_get" -> GetOutcome(thr.base.table, th.key)
      [] th.op = "db_exists" -> ~GetOutcome(thr.base.table, th.key).null

\* C20: read-only calls may run concurrently: while db_stats runs step by
\* step interleaved with another reader (db_get, db_exists, db_count,
\* db_keys, a second db_stats) and no writer is active, no step writes to the
\* table or to count, each call returns what it returns when run alone, and
\* the table is unchanged afterwards.
C20_ConcurrentReadersAgree ==
    thr.t # <<>>
    => /\ table = thr.base.table
       /\ count = thr.base.count
       /\ \A i \in 1..Len(thr.t) :
             thr.t[i].pc = "done" => thr.t[i].ret = <<AloneResult(thr.t[i])>>

\* db_stats has returned from a table with a chain of two while a db_get in
\* the other thread, started before it ended, is at the second node of that
\* chain.
C20_Witness ==
    /\ Len(thr.t) = 2
    /\ thr.t[1].op = "db_stats"
    /\ thr.t[1].pc = "done"
    /\ thr.t[1].ret = <<Stats(2, 1, 2, 1)>>
    /\ thr.t[2].op = "db_get"
    /\ thr.t[2].pc = "walk"
    /\ thr.t[2].pos = 2

\* The calls that only read the store.
ReadOnlyOps == {"db_get", "db_exists", "db_count", "db_keys", "db_stats"}

\* C22: db_get, db_exists, db_count, db_keys and db_stats leave the store
\* as it was: every chain with its keys, values and order, and count.
C22_ReadOnlyCallsChangeNothing ==
    [][lastOp'.op \in ReadOnlyOps => (table' = table /\ count' = count)]_<<lastOp.op, vars>>

\* A db_get that found its key at the end of a chain of three.
C22_Witness ==
    /\ lastOp.op = "db_get"
    /\ ~lastOp.ret.null
    /\ \E s \in Slots(table) : s[2] = 3 /\ EntryAt(table, s).key = lastOp.key

\* C24: what db_stats returns satisfies used_buckets + total_collisions =
\* total_entries, used_buckets <= min(HASH_TABLE_SIZE, total_entries),
\* max_chain_length <= total_entries, and max_chain_length = 0 exactly when
\* total_entries = 0.
C24_StatsRelations ==
    lastOp.op = "db_stats"
    => LET st == lastOp.ret
       IN  /\ st.used_buckets + st.total_collisions = st.total_entries
           /\ st.used_buckets <= HASH_TABLE_SIZE
           /\ st.used_buckets <= st.total_entries
           /\ st.max_chain_length <= st.total_entries
           /\ (st.max_chain_length = 0) <=> (st.total_entries = 0)

\* db_stats on three entries in one chain.
C24_Witness ==
    /\ lastOp.op = "db_stats"
    /\ lastOp.ret.total_entries = 3
    /\ lastOp.ret.max_chain_length = 3

\* C26: every db_keys call sets *count to db_count and returns NULL exactly
\* when the store is empty or the array cannot be allocated: NULL with
\* *count > 0 is an allocation failure, and an array has *count elements.
C26_KeysCountAndNull ==
    lastOp.op = "db_keys"
    => /\ lastOp.ret.count = count
       /\ lastOp.ret.null <=> (count = 0 \/ lastOp.oom)
       /\ (lastOp.ret.null /\ lastOp.ret.count > 0) => lastOp.oom
       /\ ~lastOp.ret.null => Len(lastOp.ret.keys) = lastOp.ret.count

\* db_keys without memory for its array on a store of two entries.
C26_Witness ==
    /\ lastOp.op = "db_keys"
    /\ lastOp.ret.null
    /\ lastOp.ret.count = 2

\* The step was a call given a NULL store handle, a NULL key or a NULL value
\* (for db_keys, a NULL count pointer).
NullArgument(call) ==
    /\ "db" \in DOMAIN call
    /\ \/ ~call.db
       \/ call.op \in {"db_set", "db_get", "db_delete", "db_exists"} /\ call.key.null
       \/ call.op = "db_set" /\ call.value.null
       \/ call.op = "db_keys" /\ ~call.countp

\* C25: a call with a NULL store handle or a NULL key or value is rejected
\* and modifies no store: db_set and db_delete return false, db_get NULL,
\* db_exists false, db_count 0, db_stats the all-zero statistics, db_keys
\* NULL; db_clear and db_destroy do nothing.
C25_NullArgumentsRejected ==
    [][NullArgument(lastOp')
       => /\ table' = table
          /\ count' = count
          /\ lastOp'.op \in {"db_set", "db_delete", "db_exists"} => lastOp'.ret = FALSE
          /\ lastOp'.op \in {"db_get", "db_keys"} => lastOp'.ret.null
          /\ lastOp'.op = "db_count" => lastOp'.ret = 0
          /\ lastOp'.op = "db_stats"
               => lastOp'.ret = [total_entries |-> 0, total_collisions |-> 0,
                                 max_chain_length |-> 0, used_buckets |-> 0]]_<<lastOp.op, vars>>

\* db_count given NULL while the store holds two entries.
C25_Witness ==
    /\ NullArgument(lastOp)
    /\ lastOp.op = "db_count"
    /\ lastOp.ret = 0
    /\ count = 2

\* The nodes reachable from the buckets of the table.
HeapReachable ==
    UNION {{a \in 1..Len(heap.node) :
               \E j \in 1..(HeapFuel(heap) + 1) :
                   LET c == HeapChain(heap, heap.table[i], HeapFuel(heap))
                   IN  j <= Len(c) /\ c[j] = a} : i \in DOMAIN heap.table}

\* The blocks a node owns: itself, its key string, its current value string.
HeapOwned(a) == {Block(a, "entry", 0), Block(a, "key", 0), Block(a, "value", heap.node[a].gen)}

\* C21: no block of memory (Entry node, key string, value string) is freed
\* more than once, whatever the order of db_set, db_delete, db_clear and
\* db_destroy; a value string replaced by db_set has been freed exactly once;
\* while the store lives, the blocks not freed are the Database and exactly
\* those of the nodes reachable from a bucket; after db_destroy every block
\* has been freed exactly once.
C21_EveryBlockFreedOnce ==
    /\ \A b \in DOMAIN heap.frees : heap.frees[b] <= 1
    /\ \A a \in 1..Len(heap.node) :
          \A g \in 0..(heap.node[a].gen - 1) : heap.frees[Block(a, "value", g)] = 1
    /\ heap.db =>
          /\ \A a \in HeapReachable : \A b \in HeapOwned(a) : b \in DOMAIN heap.frees /\ heap.frees[b] = 0
          /\ \A b \in DOMAIN heap.frees :
                heap.frees[b] = 0 => b = DbBlock \/ \E a \in HeapReachable : b \in HeapOwned(a)
    /\ ~heap.db => \A b \in DOMAIN heap.frees : heap.frees[b] = 1

\* db_destroy after db_delete or db_clear emptied a store of two entries, one
\* of them updated.
C21_Witness ==
    /\ ~heap.db
    /\ heap.count = 0
    /\ heap.table = [j \in {} |-> NULL]
    /\ Len(heap.node) = 2
    /\ \E a \in 1..Len(heap.node) : heap.node[a].gen = 1

\* C23: while the store lives, following next from the head of any bucket
\* reaches NULL after at most count steps, without meeting a node twice.
C23_ChainsEndWithinCount ==
    heap.db =>
        \A i \in DOMAIN heap.table :
            LET c == HeapChain(heap, heap.table[i], heap.count)
            IN  /\ c[Len(c)] = NULL
                /\ \A j, k \in 1..Len(c) : c[j] = c[k] => j = k

\* A chain of two nodes after an insertion at the head and the unlinking of
\* the node between them.
C23_Witness ==
    /\ heap.db
    /\ heap.last.op = "db_delete"
    /\ heap.last.ret
    /\ Len(heap.node) = 3
    /\ \E i \in DOMAIN heap.table :
          /\ heap.table[i] = 3
          /\ heap.node[3].next = 1
          /\ heap.node[1].next = NULL

\* C27 (violated): an allocation that fails leaves insertEnd and
\* insertBegin returning the list they were given, and no call stores through
\* the null pointer a failed createNode returned.
C27_AllocationsChecked ==
    /\ (heap.op \in {"insertEnd", "insertBegin"} /\ heap.fail) => heap.list = heap.before
    /\ ~heap.deref

RECURSIVE Occurrences(_, _)
\* The number of nodes of the list holding x.
Occurrences(list, x) ==
    IF list = <<>> THEN 0
    ELSE (IF Head(list) = x THEN 1 ELSE 0) + Occurrences(Tail(list), x)

\* Non-decreasing, with the data and the number of nodes of `before`.
SortedPermutation(list, before) ==
    /\ \A i \in 1..(Len(list) - 1) : list[i] <= list[i + 1]
    /\ Len(list) = Len(before)
    /\ \A x \in Data : Occurrences(list, x) = Occurrences(before, x)

\* C28: when no allocation fails, mergeSort and bubbleSort each return the
\* list non-decreasing, with the same multiset of data and the same number of
\* nodes as the list given (empty, one node, duplicates included), and the
\* other sort gives the same sequence for that list.
C28_SortsAgree ==
    /\ (heap.op = "mergeSort" /\ ~heap.deref) =>
          /\ SortedPermutation(heap.list, heap.before)
          /\ heap.list = bubbleSort(heap.before)
    /\ heap.op = "bubbleSort" =>
          /\ SortedPermutation(heap.list, heap.before)
          /\ \A allocs \in 0..MaxNodes :
                LET r == mergeSort(heap.before, allocs) IN ~r.deref => heap.list = r.list

\* mergeSort has sorted a list of four nodes with a duplicate that was not
\* in order.
C28_Witness ==
    /\ heap.op = "mergeSort"
    /\ ~heap.deref
    /\ heap.before = <<3, 1, 3, 2>>
    /\ heap.list = <<1, 2, 3, 3>>

RECURSIVE NodesFrom(_, _, _, _)
\* The nodes met following next from p until `stop`, `steps` at most, then
\* where the walk is (stop when it has ended).
NodesFrom(node, p, stop, steps) ==
    IF p \notin DOMAIN node \/ steps = 0 THEN <<p>>
    ELSE IF node[p].next = stop THEN <<p, stop>>
    ELSE <<p>> \o NodesFrom(node, node[p].next, stop, steps - 1)

\* C29: in a doubly linked list head->prev is NULL, following next from head
\* ends at NULL (tail->next is NULL) having met every allocated node once,
\* and n->next->prev is n for every node n that has a next.
C29_LinksConsistent ==
    LET walk == NodesFrom(heap.node, heap.head, NULL, MaxNodes + 1)
    IN  /\ heap.head # NULL => heap.head \in DOMAIN heap.node /\ heap.node[heap.head].prev = NULL
        /\ walk[Len(walk)] = NULL
        /\ {walk[i] : i \in 1..Len(walk)} \ {NULL} = DOMAIN heap.node
        /\ Len(walk) = Cardinality(DOMAIN heap.node) + 1
        /\ \A n \in DOMAIN heap.node :
              heap.node[n].next # NULL =>
                  /\ heap.node[n].next \in DOMAIN heap.node
                  /\ heap.node[heap.node[n].next].prev = n

\* mergeSortD has relinked three nodes: 3, then 1, then 2.
C29_Witness ==
    /\ heap.op = "mergeSortD"
    /\ heap.head = 3
    /\ DOMAIN heap.node = {1, 2, 3}
    /\ heap.node[3].next = 1
    /\ heap.node[1].next = 2
    /\ heap.node[2].prev = 1

\* The nodes of the list in order from head, as far as next leads back to head.
CycleOf(l) ==
    LET walk == NodesFrom(l.node, l.head, l.head, MaxNodes + 1)
    IN  IF l.head = NULL THEN <<>> ELSE SubSeq(walk, 1, Len(walk) - 1)

\* C30: a non-empty circular list stays circular (next from head is back at
\* head after exactly getCListLength steps, which is the number of allocated
\* nodes, and isCircular returns 1), and reverseCList returns the same nodes
\* with their data in the reversed order, the old tail as head.
C30_StaysCircular ==
    /\ [](heap.head # NULL =>
            LET walk == NodesFrom(heap.node, heap.head, heap.head, MaxNodes + 1)
            IN  /\ walk[Len(walk)] = heap.head
                /\ Len(walk) - 1 = getCListLength(heap, MaxNodes + 1)
                /\ Len(walk) - 1 = Cardinality(DOMAIN heap.node)
                /\ isCircular(heap, MaxNodes + 1) = 1)
    /\ [][heap'.op = "reverseCList" =>
            /\ Len(CycleOf(heap')) = Len(CycleOf(heap))
            /\ \A i \in 1..Len(CycleOf(heap)) :
                  /\ CycleOf(heap')[i] = CycleOf(heap)[Len(CycleOf(heap)) + 1 - i]
                  /\ heap'.node[CycleOf(heap')[i]].data = heap.node[CycleOf(heap')[i]].data]_vars

\* reverseCList has reversed a list of three nodes: 3, 2, 1 from the head.
C30_Witness ==
    /\ heap.op = "reverseCList"
    /\ heap.head = 3
    /\ DOMAIN heap.node = {1, 2, 3}
    /\ heap.node[3].next = 2
    /\ heap.node[2].next = 1
    /\ heap.node[1].next = 3

====
